---- MODULE Spec2Model ----
(***************************************************************************)
(* A model of the harpichord-midi core:                                    *)
(*   - AudioEngine (src/unnamed/part_001): the memoised async init(), the  *)
(*     ensureAudioOpened() gate, the rhythm interval timer and the chord   *)
(*     and bass voice lists, run on a single-threaded event loop (one      *)
(*     synchronous turn, then the microtask queue in FIFO order);          *)
(*   - MidiManager of src/services/midiService.ts: the lockout window,     *)
(*     chord-note tracking per output and the harp note-off timers,        *)
(*     driven by the App handlers of src/services/audioEngine.ts;          *)
(*   - MidiInstrument of src/temp/App-1.tsx on top of the MidiManager of   *)
(*     src/temp/MidiManager.ts, whose sendMidi broadcasts internally.      *)
(***************************************************************************)
EXTENDS Integers, Sequences, FiniteSets, Bags, TLC

(***************************************************************************)
(* Bounds of the model.                                                    *)
(***************************************************************************)
MaxTasks == 2       \* async calls suspended or queued at the same time
MaxTimers == 2      \* interval timers ever created
MaxSteps == 2       \* ticks taken by one interval timer
MaxPlays == 2       \* playChord calls ever issued
MaxInitCalls == 2   \* direct init() calls ever issued
MaxTime == 290      \* the clock (ms) stops here
MaxHarpTimers == 1  \* harp note-off timers pending at the same time
MaxThrowAt == 5     \* messages a sendChord hands to a port before its send() throws
MaxSends == 2       \* direct sendChord / sendHarpNote calls ever issued
MaxDepth == 3       \* handleMidiEvent frames the call stack holds
MaxAudioTime == 2
MaxTicks == 48      \* interval callbacks run by one timer of the step-cycle specification
MaxSetterCalls == 2 \* setter calls ever issued
MaxPending == 2      \* harp note-off timers pending at the same time in the harp specification
MaxAccessCalls == 3  \* init() / requestAccess() calls ever issued
MaxCounter == 14     \* midiEventCounter stops here
MaxRegistrations == 2 \* addListener calls for one callback without a removeListener

(***************************************************************************)
(* Input domains.                                                          *)
(***************************************************************************)
\* constants.tsx: POWER_CHORDS and MAJOR_CHORDS at root C (offset 0)
Chords == { <<0, 7>>, <<0, 4, 7>> }
\* types.ts RhythmPattern: two of the real patterns
Patterns == { "Rock 1", "Waltz" }
\* what the platform does to `new AudioContext()`: it throws, or the context
\* starts suspended (autoplay policy), or it starts running
InitOutcomes == { "throw", "suspended", "running" }

\* the platform's MIDI output ports and the registered callbacks
Devices == { "o1", "o2" }
Listeners == { "l1", "l2" }
Channels == { 1, 2 }
OutputSelectors == { "none", "all" } \cup Devices
\* sendChord(null, ...): a chord without intervals stands for null
NoChord == << >>
\* harp strings 0..13 (SonicStrings): the first string of the second octave
StringIndexes == { 3 }

VARIABLES
    \* ---- AudioEngine (src/unnamed/part_001) ----
    initPromise,       \* "null" | "pending" | "fulfilled" | "rejected"
    ctx,               \* "null" | "suspended" | "running"  (this.ctx and ctx.state)
    graphBuilt,        \* all graph node fields (masterGain .. reverbOutput) assigned
    audioOpened,
    masterTarget,      \* target scheduled on masterGain.gain (0 = muted)
    ctxCount,          \* AudioContext objects constructed
    graphCount,        \* signal graphs constructed
    attempts,          \* times the init body was entered
    initCalls,         \* direct init() calls issued
    callerSaw,         \* what each resumed init() caller observed
    rhythmInterval,    \* 0 = null, else the id of the stored interval timer
    timers,            \* live interval timers: [id, pattern, step]
    nextTimer,         \* next id window.setInterval hands out
    lastPattern,       \* pattern of the latest rhythm request ("None" after a stop)
    lastTick,          \* the latest tick: [id, step, drums]
    bassEnabled,
    chordOscillators,  \* tracked chord voices
    bassOscillators,   \* tracked bass voices
    stopScheduled,     \* voices whose oscillator has a stop scheduled
    nextCall,          \* number of the next playChord call
    playStopCalls,     \* playChord calls that were followed by stopChord(true) in the same turn
    waitInit,          \* continuations awaiting initPromise, in registration order
    waitResume,        \* continuations awaiting ctx.resume(), in registration order
    ready,             \* the microtask queue
    inTurn,            \* a synchronous handler is running (microtasks wait)
    \* ---- MidiManager (src/services/midiService.ts) and its App state ----
    now,               \* Date.now(), ms
    lockoutUntil,
    outputs,           \* ids in this.outputs
    listeners,         \* this.listeners
    registrations,     \* per callback, the addListener calls since its last removeListener
    activeChordNotes,  \* per output id, the tracked notes (absent = << >>)
    harpTimers,        \* pending setTimeout note-offs: [due, dev, status, note, at, seq]
    wire,              \* per output, the messages the latest sendChord handed to it
    prevOn,            \* per output, the <<channel, note>> the sendChord before it turned on
    held,              \* per output, chord <<channel, note>> turned on and not yet off
    lastSendAt,        \* time of the latest send call that resolved an output (-1: none)
    lastTransmitAt,    \* time of the latest message handed to an output (-1: none)
    lastIn,            \* the latest incoming message: how long after the latest send, who got it
    sends,             \* direct sendChord / sendHarpNote calls issued
    portOpen,          \* the output ports whose send() succeeds (the others throw)
    harpOn,            \* bag of the harp note-ons an output accepted: [dev, status, note]
    harpOff,           \* bag of the note-offs the harp timers sent: [dev, status, note]
    uncaught,          \* a send exception left its handler: "none" or the path it left
    midiChordOutputId, \* App state
    midiChordChannel,  \* App state
    \* ---- MidiInstrument (src/temp/App-1.tsx) over src/temp/MidiManager.ts ----
    config,            \* this.config: [inputId, inputChannel, outputId, outputChannel]
    callStack,         \* the handleMidiEvent frames: [message, deviceId, pc]
    thruSends,         \* sendMidi calls made while handling the current incoming message
    lastEvent,         \* the latest handleMidiEvent run: [message, deviceId, callbacks, thru]
    \* ---- AudioEngine settings and audio node parameters (src/unnamed/part_001) ----
    params,            \* per audio parameter: [n: schedules made by safeTarget, target: the latest]
    tubeCurve,         \* drive of the latest masterTubeAmp.curve a setter assigned (-1: none)
    tempo,             \* this.tempo
    rhythmCutoff,      \* this.rhythmCutoff, percent
    setterCalls,       \* setter calls issued
    lastSetter,        \* the latest setter call: [name, built: all node fields were assigned]
    setterThrew,       \* a setter dereferenced an unassigned node field
    lastDelay,         \* the division and feedback of the last updateDelay call
    vibratoAmount,     \* this.vibratoAmount, percent
    vibratoRate,       \* this.vibratoRate, Hz
    currentTime,       \* ctx.currentTime, in render quanta
    \* ---- MIDI access of both managers (midiService.ts, temp/MidiManager.ts) ----
    hasApi,            \* navigator.requestMIDIAccess exists: "unknown" until first probed
    mgr,               \* per manager: [held: midiAccess set, supported, initialized]
    tmOutputs,         \* ids in the outputs map of temp/MidiManager.ts
    calls,             \* the init() / requestAccess() calls: [m, id, pc, asked, refused, result, flag, outs]
    refreshes,         \* handleRefreshDevices runs: [id, from, requested, rebuilt]
    \* ---- the storm guard of App.handleMidiMessage (src/services/audioEngine.ts) ----
    lastMidiTime,      \* lastMidiTime.current, ms since the page was loaded
    midiEventCounter,  \* midiEventCounter.current
    passTimes,         \* times of the messages that passed the guard in the last 100 ms
    lastVerdict,       \* the latest message: [passed, before: passes of the 100 ms up to it, id]
    arrivals,          \* times of the messages the watched device sent in the last 100 ms
    \* ---- single calls of the note and parameter computations ----
    calcIn,            \* the latest such call: its name and arguments
    calcOut            \* what that call computed or handed on

engineVars == << initPromise, ctx, graphBuilt, audioOpened, masterTarget, ctxCount,
                 graphCount, attempts, initCalls, callerSaw, rhythmInterval, timers,
                 nextTimer, lastPattern, lastTick, bassEnabled, chordOscillators,
                 bassOscillators, stopScheduled, nextCall, playStopCalls,
                 waitInit, waitResume, ready, inTurn >>

portVars == << portOpen, harpOn, harpOff, uncaught >>

midiVars == << now, lockoutUntil, outputs, listeners, registrations, activeChordNotes, harpTimers,
               wire, prevOn, held, lastSendAt, lastTransmitAt, lastIn, sends,
               portVars, midiChordOutputId, midiChordChannel >>

instVars == << config, callStack, thruSends, lastEvent >>

paramVars == << params, tubeCurve, tempo, rhythmCutoff, setterCalls, lastSetter,
                setterThrew, lastDelay, vibratoAmount, vibratoRate, currentTime >>

accessVars == << hasApi, mgr, tmOutputs, calls, refreshes >>

guardVars == << lastMidiTime, midiEventCounter, passTimes, lastVerdict, arrivals >>

calcVars == << calcIn, calcOut >>

vars == << engineVars, midiVars, instVars, paramVars, accessVars, guardVars, calcVars >>

(***************************************************************************)
(* AudioEngine: the promise-related core as a record, so that the          *)
(* synchronous call chains (startRhythm -> ensureAudioOpened -> init)      *)
(* compose as functions.                                                   *)
(***************************************************************************)
Core == [ initPromise |-> initPromise, ctx |-> ctx, graphBuilt |-> graphBuilt,
          audioOpened |-> audioOpened, masterTarget |-> masterTarget,
          ctxCount |-> ctxCount, graphCount |-> graphCount, attempts |-> attempts,
          waitInit |-> waitInit, waitResume |-> waitResume, ready |-> ready ]

SetCore(E) ==
    /\ initPromise' = E.initPromise
    /\ ctx' = E.ctx
    /\ graphBuilt' = E.graphBuilt
    /\ audioOpened' = E.audioOpened
    /\ masterTarget' = E.masterTarget
    /\ ctxCount' = E.ctxCount
    /\ graphCount' = E.graphCount
    /\ attempts' = E.attempts
    /\ waitInit' = E.waitInit
    /\ waitResume' = E.waitResume
    /\ ready' = E.ready

Task(kind, pc, pattern, chord, call) ==
    [ kind |-> kind, pc |-> pc, pattern |-> pattern, chord |-> chord,
      call |-> call, err |-> FALSE ]

InitBodyTask == Task("initBody", "afterResume", "None", <<>>, 0)

\* safeTarget(this.masterGain?.gain, 1, ...): a no-op without the node or the context
SafeTargetMaster(E) ==
    IF E.graphBuilt /\ E.ctx # "null" THEN 1 ELSE E.masterTarget

\* init(), line 140: the cached promise is returned whenever one exists
InitMemoized_NoCache(E) == FALSE
InitMemoized(E) == E.initPromise # "null"

\* lines 150-285: the graph construction that follows the resume
BuildGraph(E) ==
    LET G == [E EXCEPT !.graphBuilt = TRUE, !.graphCount = @ + 1] IN
    IF G.ctx = "running"
    THEN [G EXCEPT !.masterTarget = SafeTargetMaster(G), !.audioOpened = TRUE]
    ELSE G

\* lines 142-148: the init body up to its first await, under platform outcome o
InitAttempt(E, o) ==
    LET A == [E EXCEPT !.attempts = @ + 1] IN
    CASE o = "throw" -> [A EXCEPT !.initPromise = "rejected"]
      [] o = "suspended" ->
            [A EXCEPT !.ctx = "suspended", !.ctxCount = @ + 1,
                      !.initPromise = "pending",
                      !.waitResume = Append(@, InitBodyTask)]
      [] OTHER ->
            [BuildGraph([A EXCEPT !.ctx = "running", !.ctxCount = @ + 1])
                EXCEPT !.initPromise = "fulfilled"]

\* init(), lines 139-289
InitCall(E, o) == IF InitMemoized(E) THEN E ELSE InitAttempt(E, o)

\* `await <initPromise>`: the continuation t waits, or is queued when the
\* promise is already settled
AwaitInit(E, t) ==
    IF E.initPromise = "pending"
    THEN [E EXCEPT !.waitInit = Append(@, t)]
    ELSE [E EXCEPT !.ready = Append(@, [t EXCEPT !.err = (E.initPromise = "rejected")])]

\* ensureAudioOpened resolved: the caller's `await` continues in a microtask
EnsureReturn(E, t) == [E EXCEPT !.ready = Append(@, [t EXCEPT !.pc = "afterEnsure"])]

\* ensureAudioOpened, lines 296-297
OpenAudio(E, t) ==
    EnsureReturn([E EXCEPT !.masterTarget = SafeTargetMaster(E), !.audioOpened = TRUE], t)

\* ensureAudioOpened, lines 293-298
EnsureTail(E, t) ==
    IF E.ctx = "null" \/ E.audioOpened THEN EnsureReturn(E, t)
    ELSE IF E.ctx # "running"
         THEN [E EXCEPT !.waitResume = Append(@, [t EXCEPT !.pc = "afterResume"])]
         ELSE OpenAudio(E, t)

\* ensureAudioOpened, lines 291-299, up to its first suspension
EnsureStart(E, t, o) ==
    IF E.ctx = "null"
    THEN AwaitInit(InitCall(E, o), [t EXCEPT !.pc = "afterInit"])
    ELSE EnsureTail(E, t)

PendingOf(kind) ==
    Cardinality({ i \in 1..Len(waitInit) : waitInit[i].kind = kind })
  + Cardinality({ i \in 1..Len(waitResume) : waitResume[i].kind = kind })
  + Cardinality({ i \in 1..Len(ready) : ready[i].kind = kind })

\* async calls of the callers (init's own body not counted) still in flight
Pending == Len(waitInit) + Len(waitResume) + Len(ready) - PendingOf("initBody")
\* nothing is suspended or queued and no handler is running
Quiescent == ~inTurn /\ waitInit = <<>> /\ waitResume = <<>> /\ ready = <<>>

\* a synchronous call can be made by the running handler, or by a new event
\* once the microtask queue has drained
CanCall == inTurn \/ ready = <<>>
\* timers and platform events are tasks of their own
CanFire == ~inTurn /\ ready = <<>>

(***************************************************************************)
(* Rhythm sequencer.                                                       *)
(***************************************************************************)
\* the switch of the interval callback, lines 521-596 (two patterns)
Drums(pattern, s) ==
    CASE pattern = "Rock 1" ->
              (IF s % 8 = 0 \/ s % 8 = 6 THEN {"kick"} ELSE {})
         \cup (IF s % 8 = 4 THEN {"snare"} ELSE {})
         \cup (IF s % 4 = 0 THEN {"hihat"} ELSE {})
      [] pattern = "Waltz" ->
              (IF s % 12 = 0 THEN {"kick"} ELSE {})
         \cup (IF s % 12 = 4 \/ s % 12 = 8 THEN {"hihat"} ELSE {})
      [] pattern = "Jazz Waltz" ->
              (IF s % 12 = 0 THEN {"kick"} ELSE {})
         \cup (IF s % 12 = 4 \/ s % 12 = 8 THEN {"hihat"} ELSE {})
         \cup (IF s % 12 = 4 THEN {"snare"} ELSE {})
      [] OTHER -> {}

\* stopRhythm, lines 630-633: clears the stored timer only
ClearedTimers == { t \in timers : t.id # rhythmInterval }

StopRhythm ==
    /\ UNCHANGED << midiVars, instVars, paramVars, accessVars, guardVars, calcVars >>
    /\ CanCall
    /\ inTurn' = TRUE
    /\ timers' = ClearedTimers
    /\ rhythmInterval' = 0
    /\ lastPattern' = "None"
    /\ UNCHANGED << initPromise, ctx, graphBuilt, audioOpened, masterTarget, ctxCount,
                    graphCount, attempts, initCalls, callerSaw, nextTimer, lastTick,
                    bassEnabled, chordOscillators, bassOscillators, stopScheduled,
                    nextCall, playStopCalls, waitInit, waitResume, ready >>

\* startRhythm, lines 509-514: the synchronous part
StartRhythmCall(pattern, o) ==
    /\ CanCall
    /\ inTurn' = TRUE
    /\ timers' = ClearedTimers
    /\ rhythmInterval' = 0
    /\ lastPattern' = pattern
    /\ IF pattern = "None"
       THEN UNCHANGED << initPromise, ctx, graphBuilt, audioOpened, masterTarget,
                         ctxCount, graphCount, attempts, waitInit, waitResume, ready >>
       ELSE /\ Pending < MaxTasks
            /\ nextTimer + PendingOf("startRhythm") <= MaxTimers
            /\ SetCore(EnsureStart(Core, Task("startRhythm", "start", pattern, <<>>, 0), o))
    /\ UNCHANGED << initCalls, callerSaw, nextTimer, lastTick, bassEnabled,
                    chordOscillators, bassOscillators, stopScheduled, nextCall,
                    playStopCalls >>

StartRhythm(pattern, o) ==
    /\ UNCHANGED << midiVars, instVars, paramVars, accessVars, guardVars, calcVars >>
    /\ StartRhythmCall(pattern, o)

\* startRhythm, lines 517 and 598: (beatLen / 4) * 1000 ms, held in microseconds
TickPeriod(bpm) == 15000000 \div bpm

\* startRhythm, lines 515-520: after the await
ResumeStartRhythm(t, E) ==
    /\ IF E.ctx = "null"
       THEN UNCHANGED << rhythmInterval, timers, nextTimer >>
       ELSE /\ rhythmInterval' = nextTimer
            /\ timers' = timers \cup { [id |-> nextTimer, pattern |-> t.pattern, step |-> 0,
                                         period |-> TickPeriod(tempo)] }
            /\ nextTimer' = nextTimer + 1
    /\ SetCore(E)
    /\ UNCHANGED << chordOscillators, bassOscillators, stopScheduled, callerSaw >>

\* the interval callback, lines 520-598; playDrum (601-602) needs ctx and rhythmSource
RhythmTick(t) ==
    /\ UNCHANGED << midiVars, instVars, paramVars, accessVars, guardVars, calcVars >>
    /\ CanFire
    /\ t \in timers
    /\ t.step < MaxSteps
    /\ lastTick' = [ id |-> t.id, step |-> t.step,
                     drums |-> IF ctx # "null" /\ graphBuilt
                               THEN Drums(t.pattern, t.step % 16) ELSE {} ]
    /\ timers' = (timers \ {t}) \cup { [t EXCEPT !.step = (t.step + 1) % 48] }
    /\ UNCHANGED << initPromise, ctx, graphBuilt, audioOpened, masterTarget, ctxCount,
                    graphCount, attempts, initCalls, callerSaw, rhythmInterval,
                    nextTimer, lastPattern, bassEnabled, chordOscillators,
                    bassOscillators, stopScheduled, nextCall, playStopCalls,
                    waitInit, waitResume, ready, inTurn >>

(***************************************************************************)
(* Chord and bass voices.                                                  *)
(***************************************************************************)
\* playChord, lines 437-447 and 456: the voice's LFO, made only while the
\* vibrato amount is above 0; rate in Hz, depth (amount * 25) in 1/100 Hz
NoLfo == [ on |-> FALSE, rate |-> -1, depth |-> -1 ]
NewLfo(amount, rate) ==
    IF amount > 0 THEN [ on |-> TRUE, rate |-> rate, depth |-> amount * 25 ] ELSE NoLfo

ChordVoices(call, chord) ==
    { [call |-> call, kind |-> "chord", idx |-> i,
       lfo |-> NewLfo(vibratoAmount, vibratoRate)] : i \in 1..Len(chord) }
BassVoices(call) ==
    { [call |-> call, kind |-> "bass", idx |-> i] : i \in 1..2 }

\* the oscillators of a set of voices: the carrier of each voice and, for a
\* chord voice that has one, its LFO (lines 456, 469-470, 476)
Oscillators(voices) ==
    { << v.call, v.kind, v.idx, "osc" >> : v \in voices }
        \cup { << v.call, v.kind, v.idx, "lfo" >> :
                  v \in { w \in voices : w.kind = "chord" /\ w.lfo.on } }

\* stopChord, lines 460-481, as a function of the lists it is given
StopChordEffect_NoStop(E, chordOsc, bassOsc, stopped) ==
    IF E.ctx = "null"
    THEN [ chord |-> chordOsc, bass |-> bassOsc, stopped |-> stopped ]
    ELSE [ chord |-> {}, bass |-> {}, stopped |-> stopped ]
StopChordEffect(E, chordOsc, bassOsc, stopped) ==
    IF E.ctx = "null"
    THEN [ chord |-> chordOsc, bass |-> bassOsc, stopped |-> stopped ]
    ELSE [ chord |-> {}, bass |-> {}, stopped |-> stopped \cup chordOsc \cup bassOsc ]

StopChord(immediate) ==
    /\ UNCHANGED << midiVars, instVars, paramVars, accessVars, guardVars, calcVars >>
    /\ CanCall
    /\ inTurn' = TRUE
    /\ LET r == StopChordEffect(Core, chordOscillators, bassOscillators, stopScheduled) IN
          /\ chordOscillators' = r.chord
          /\ bassOscillators' = r.bass
          /\ stopScheduled' = r.stopped
    /\ UNCHANGED << initPromise, ctx, graphBuilt, audioOpened, masterTarget, ctxCount,
                    graphCount, attempts, initCalls, callerSaw, rhythmInterval, timers,
                    nextTimer, lastPattern, lastTick, bassEnabled, nextCall,
                    playStopCalls, waitInit, waitResume, ready >>

\* playChord, lines 394-395: the synchronous part
PlayChordCall(chord, o) ==
    /\ CanCall
    /\ nextCall <= MaxPlays
    /\ Pending < MaxTasks
    /\ nextCall' = nextCall + 1
    /\ SetCore(EnsureStart(Core, Task("playChord", "start", "None", chord, nextCall), o))

PlayChord(chord, o) ==
    /\ UNCHANGED << midiVars, instVars, paramVars, accessVars, guardVars, calcVars >>
    /\ PlayChordCall(chord, o)
    /\ inTurn' = TRUE
    /\ UNCHANGED << initCalls, callerSaw, rhythmInterval, timers, nextTimer, lastPattern,
                    lastTick, bassEnabled, chordOscillators, bassOscillators,
                    stopScheduled, playStopCalls >>

\* playChord(chord); stopChord(true);  issued back to back by one handler
PlayChordThenStop(chord, o) ==
    /\ UNCHANGED << midiVars, instVars, paramVars, accessVars, guardVars, calcVars >>
    /\ PlayChordCall(chord, o)
    /\ inTurn' = TRUE
    /\ playStopCalls' = playStopCalls \cup {nextCall}
    /\ LET r == StopChordEffect(EnsureStart(Core, Task("playChord", "start", "None", chord, nextCall), o),
                                chordOscillators, bassOscillators, stopScheduled) IN
          /\ chordOscillators' = r.chord
          /\ bassOscillators' = r.bass
          /\ stopScheduled' = r.stopped
    /\ UNCHANGED << initCalls, callerSaw, rhythmInterval, timers, nextTimer, lastPattern,
                    lastTick, bassEnabled >>

\* playChord, lines 396-458: after the await
ResumePlayChord(t, E) ==
    /\ IF E.ctx = "null"
       THEN UNCHANGED << chordOscillators, bassOscillators, stopScheduled >>
       ELSE LET r == StopChordEffect(E, chordOscillators, bassOscillators, stopScheduled) IN
              /\ stopScheduled' = r.stopped
              /\ bassOscillators' = r.bass \cup (IF bassEnabled THEN BassVoices(t.call) ELSE {})
              /\ chordOscillators' = r.chord \cup ChordVoices(t.call, t.chord)
    /\ SetCore(E)
    /\ UNCHANGED << rhythmInterval, timers, nextTimer, callerSaw >>

\* setBassEnabled, line 323
SetBassEnabled(v) ==
    /\ UNCHANGED << midiVars, instVars, paramVars, accessVars, guardVars, calcVars >>
    /\ CanCall
    /\ inTurn' = TRUE
    /\ bassEnabled' = v
    /\ UNCHANGED << initPromise, ctx, graphBuilt, audioOpened, masterTarget, ctxCount,
                    graphCount, attempts, initCalls, callerSaw, rhythmInterval, timers,
                    nextTimer, lastPattern, lastTick, chordOscillators, bassOscillators,
                    stopScheduled, nextCall, playStopCalls, waitInit, waitResume, ready >>

(***************************************************************************)
(* init() called directly and awaited (App.initAudioOnInteraction).        *)
(***************************************************************************)
CallInit(o) ==
    /\ UNCHANGED << midiVars, instVars, paramVars, accessVars, guardVars, calcVars >>
    /\ CanCall
    /\ inTurn' = TRUE
    /\ initCalls < MaxInitCalls
    /\ Pending < MaxTasks
    /\ initCalls' = initCalls + 1
    /\ SetCore(AwaitInit(InitCall(Core, o), Task("initCaller", "afterInit", "None", <<>>, 0)))
    /\ UNCHANGED << callerSaw, rhythmInterval, timers, nextTimer, lastPattern, lastTick,
                    bassEnabled, chordOscillators, bassOscillators, stopScheduled,
                    nextCall, playStopCalls >>

(***************************************************************************)
(* The event loop.                                                         *)
(***************************************************************************)
\* the running handler returns; the microtask queue may drain
EndTurn ==
    /\ UNCHANGED << midiVars, instVars, paramVars, accessVars, guardVars, calcVars >>
    /\ inTurn
    /\ inTurn' = FALSE
    /\ UNCHANGED << initPromise, ctx, graphBuilt, audioOpened, masterTarget, ctxCount,
                    graphCount, attempts, initCalls, callerSaw, rhythmInterval, timers,
                    nextTimer, lastPattern, lastTick, bassEnabled, chordOscillators,
                    bassOscillators, stopScheduled, nextCall, playStopCalls,
                    waitInit, waitResume, ready >>

\* the init body's continuation, lines 150-286, or its rejection
ResumeInitBody(t, E) ==
    /\ IF t.err
       THEN SetCore([E EXCEPT !.initPromise = "rejected",
                              !.ready = @ \o [i \in 1..Len(E.waitInit) |->
                                                [E.waitInit[i] EXCEPT !.err = TRUE]],
                              !.waitInit = <<>>])
       ELSE SetCore([BuildGraph(E) EXCEPT !.initPromise = "fulfilled",
                                          !.ready = @ \o E.waitInit,
                                          !.waitInit = <<>>])
    /\ UNCHANGED << callerSaw, rhythmInterval, timers, nextTimer, chordOscillators,
                    bassOscillators, stopScheduled >>

\* the continuation of `await audioEngine.init()`
ResumeInitCaller(t, E) ==
    /\ callerSaw' = callerSaw \cup
          { [ outcome |-> IF t.err THEN "rejected" ELSE "fulfilled",
              graphBuilt |-> graphBuilt, graphCount |-> graphCount ] }
    /\ SetCore(E)
    /\ UNCHANGED << rhythmInterval, timers, nextTimer, chordOscillators,
                    bassOscillators, stopScheduled >>

\* a startRhythm / playChord continuation inside or after ensureAudioOpened
ResumeEnsured(t, E) ==
    CASE t.err ->
            \* the awaited promise rejected: the async call ends with that rejection
            /\ SetCore(E)
            /\ UNCHANGED << callerSaw, rhythmInterval, timers, nextTimer,
                            chordOscillators, bassOscillators, stopScheduled >>
      [] ~t.err /\ t.pc = "afterInit" ->
            /\ SetCore(EnsureTail(E, t))
            /\ UNCHANGED << callerSaw, rhythmInterval, timers, nextTimer,
                            chordOscillators, bassOscillators, stopScheduled >>
      [] ~t.err /\ t.pc = "afterResume" ->
            /\ SetCore(OpenAudio(E, t))
            /\ UNCHANGED << callerSaw, rhythmInterval, timers, nextTimer,
                            chordOscillators, bassOscillators, stopScheduled >>
      [] ~t.err /\ t.pc = "afterEnsure" /\ t.kind = "startRhythm" -> ResumeStartRhythm(t, E)
      [] OTHER -> ResumePlayChord(t, E)

RunMicrotask ==
    /\ UNCHANGED << midiVars, instVars, paramVars, accessVars, guardVars, calcVars >>
    /\ ~inTurn
    /\ ready # <<>>
    /\ LET t == Head(ready)
           E == [Core EXCEPT !.ready = Tail(ready)] IN
          CASE t.kind = "initBody" -> ResumeInitBody(t, E)
            [] t.kind = "initCaller" -> ResumeInitCaller(t, E)
            [] OTHER -> ResumeEnsured(t, E)
    /\ UNCHANGED << initCalls, lastPattern, lastTick, bassEnabled, nextCall,
                    playStopCalls, inTurn >>

\* the platform resumes the context: every pending resume() promise resolves
ResumeResolves ==
    /\ UNCHANGED << midiVars, instVars, paramVars, accessVars, guardVars, calcVars >>
    /\ CanFire
    /\ ctx = "suspended"
    /\ waitResume # <<>>
    /\ ctx' = "running"
    /\ ready' = waitResume
    /\ waitResume' = <<>>
    /\ UNCHANGED << initPromise, graphBuilt, audioOpened, masterTarget, ctxCount,
                    graphCount, attempts, initCalls, callerSaw, rhythmInterval, timers,
                    nextTimer, lastPattern, lastTick, bassEnabled, chordOscillators,
                    bassOscillators, stopScheduled, nextCall, playStopCalls,
                    waitInit, inTurn >>

\* the platform refuses: every pending resume() promise rejects
ResumeRejects ==
    /\ UNCHANGED << midiVars, instVars, paramVars, accessVars, guardVars, calcVars >>
    /\ CanFire
    /\ ctx = "suspended"
    /\ waitResume # <<>>
    /\ ready' = [i \in 1..Len(waitResume) |-> [waitResume[i] EXCEPT !.err = TRUE]]
    /\ waitResume' = <<>>
    /\ UNCHANGED << initPromise, ctx, graphBuilt, audioOpened, masterTarget, ctxCount,
                    graphCount, attempts, initCalls, callerSaw, rhythmInterval, timers,
                    nextTimer, lastPattern, lastTick, bassEnabled, chordOscillators,
                    bassOscillators, stopScheduled, nextCall, playStopCalls,
                    waitInit, inTurn >>

(***************************************************************************)
(* AudioEngine: the setters.  Levels (volumes, sends, feedback, ...) are   *)
(* given in percent of the source's 0..1 range, gains and pan are held in  *)
(* 1/1000, frequencies in Hz and delay times in microseconds.              *)
(***************************************************************************)
ParamNames ==
    { "chordSource.gain", "harpSource.gain", "rhythmSource.gain", "bassSource.gain",
      "rhythmFilterBus.frequency", "masterTubeDry.gain", "masterTubeWet.gain",
      "delayNodeL.delayTime", "delayNodeR.delayTime", "delayFeedback.gain",
      "delayFilter.frequency", "reverbGains.gain", "reverbFilter.frequency",
      "reverbPanner.pan", "chordDry.gain", "chordDelaySend.gain", "chordReverbSend.gain",
      "harpDry.gain", "harpDelaySend.gain", "harpReverbSend.gain", "rhythmDry.gain",
      "rhythmDelaySend.gain", "rhythmReverbSend.gain" }

Levels == { 30, 100 }
Tempos == { 90, 120 }
Divisions == { "1/8", "1/4D" }

\* the divisions of the table of updateDelay, lines 364-367, and "1/16" of the
\* delay buttons (src/components/ControlPanel.tsx line 288), which the table lacks
AllDivisions ==
    { "1/2", "1/4", "1/4D", "1/8", "1/8D", "5/16", "5/8", "7/8", "1/4T", "1/8T",
      "1/16T", "1/16" }
\* feedback in percent: the knob's range 0..1 and a value past it
Feedbacks == { 0, 40, 60, 100, 120 }
DelayTempos == { 60, 120 }
\* vibrato amounts in percent and rates in Hz
VibratoAmounts == { 0, 50 }
VibratoRates == { 5, 7 }
\* tempos of the range of the tempo input, spreads in percent of the knob's 0..1
RangeTempos == { 40, 41, 60, 120, 240 }
Spreads == { 0, 50, 100 }
\* init(), lines 185-186: createDelay(4.0), in microseconds
MAX_DELAY_TIME == 4000000
\* the range of the tempo input and of the tempo knob,
\* src/components/ControlPanel.tsx lines 266-269
TEMPO_MIN == 40
TEMPO_MAX == 240
\* values for setTempo: negative, zero, just outside and inside that range
AnyTempos == { -20, 0, 39, 40, 120, 240, 241 }

Max(a, b) == IF a >= b THEN a ELSE b

\* init(), lines 251-280: the node fields are assigned together, after the
\* whole graph has been constructed
NodeAssigned(E) == E.graphBuilt

\* safeTarget, lines 121-122: cancelScheduledValues(now) drops the events at or
\* after now, setTargetAtTime(value, now, ramp) adds one starting now
Rescheduled_Uncancelled(events, T, value) ==
    events \cup { [ at |-> T, target |-> value ] }
Rescheduled(events, T, value) ==
    { e \in events : e.at < T } \cup { [ at |-> T, target |-> value ] }

\* safeTarget, lines 116-123
SafeTarget_Unguarded(P, E, name, value) ==
    [P EXCEPT ![name] = [ n |-> @.n + 1, target |-> value,
                          events |-> Rescheduled(@.events, currentTime, value) ]]
SafeTarget(P, E, name, value) ==
    IF ~NodeAssigned(E) \/ E.ctx = "null" THEN P
    ELSE [P EXCEPT ![name] = [ n |-> @.n + 1, target |-> value,
                               events |-> Rescheduled(@.events, currentTime, value) ]]

\* a setter call made by the running handler or by a new event
SetterCall(name) ==
    /\ CanCall
    /\ setterCalls < MaxSetterCalls
    /\ setterCalls' = setterCalls + 1
    /\ lastSetter' = [ name |-> name, built |-> graphBuilt ]
    /\ IF name = "delay" THEN TRUE ELSE UNCHANGED lastDelay
    /\ UNCHANGED << vibratoAmount, vibratoRate, currentTime >>
    /\ inTurn' = TRUE
    /\ UNCHANGED << initPromise, ctx, graphBuilt, audioOpened, masterTarget, ctxCount,
                    graphCount, attempts, initCalls, callerSaw, rhythmInterval, timers,
                    nextTimer, lastPattern, lastTick, bassEnabled, chordOscillators,
                    bassOscillators, stopScheduled, nextCall, playStopCalls,
                    waitInit, waitResume, ready >>
    /\ UNCHANGED << midiVars, instVars, accessVars, guardVars, calcVars >>

\* setChordVolume .. setBassVolume, lines 301-304: v * 0.4, 0.8, 3.0, 2.0
SetVolume(source, factor, v) ==
    /\ SetterCall(source)
    /\ params' = SafeTarget(params, Core, source, v * factor)
    /\ UNCHANGED << tubeCurve, tempo, rhythmCutoff, setterThrew >>

SetChordVolume(v) == SetVolume("chordSource.gain", 4, v)
SetHarpVolume(v) == SetVolume("harpSource.gain", 8, v)
SetRhythmVolume(v) == SetVolume("rhythmSource.gain", 30, v)
SetBassVolume(v) == SetVolume("bassSource.gain", 20, v)

\* setTempo, line 309
SetTempo(v) ==
    /\ SetterCall("tempo")
    /\ tempo' = v
    /\ UNCHANGED << params, tubeCurve, rhythmCutoff, setterThrew >>

\* setRhythmCutoff, lines 318-322
SetRhythmCutoff(v) ==
    /\ SetterCall("rhythmFilterBus.frequency")
    /\ rhythmCutoff' = v
    /\ params' = SafeTarget(params, Core, "rhythmFilterBus.frequency", 100 + v * 190)
    /\ UNCHANGED << tubeCurve, tempo, setterThrew >>

\* setTubeAmp, line 330: the early return
TubeGuard(E) == ~NodeAssigned(E)

\* setTubeAmp, lines 329-334
SetTubeAmp(enabled, drive, wet) ==
    /\ SetterCall("masterTubeAmp")
    /\ IF TubeGuard(Core)
       THEN UNCHANGED << params, tubeCurve, setterThrew >>
       ELSE /\ params' = SafeTarget(
                           SafeTarget(params, Core, "masterTubeDry.gain",
                                      IF enabled THEN 1000 - wet * 10 ELSE 1000),
                           Core, "masterTubeWet.gain", IF enabled THEN wet * 10 ELSE 0)
            /\ tubeCurve' = IF NodeAssigned(Core) THEN drive ELSE tubeCurve
            /\ setterThrew' = (setterThrew \/ ~NodeAssigned(Core))
    /\ UNCHANGED << tempo, rhythmCutoff >>

\* updateDelay, lines 364-367: the multipliers, in 1/1000
DivisionMultiplier(div) ==
    CASE div = "1/2" -> 2000 [] div = "1/4" -> 1000 [] div = "1/4D" -> 1500
      [] div = "1/8" -> 500 [] div = "1/8D" -> 750 [] div = "5/16" -> 625
      [] div = "5/8" -> 2500 [] div = "7/8" -> 3500 [] div = "1/4T" -> 666
      [] div = "1/8T" -> 333 [] div = "1/16T" -> 166 [] OTHER -> 500

\* updateDelay, lines 363-368: beatTime * multiplier, in microseconds
DelayTime_TempoIgnored(bpm, div) == 500 * DivisionMultiplier(div)
DelayTime(bpm, div) == (60000 * DivisionMultiplier(div)) \div bpm

\* updateDelay, line 362: the early return
DelayGuard(E) == ~NodeAssigned(E)

\* updateDelay, lines 369-372
DelayTargets(P, E, bpm, div, fb, tone, spread) ==
    LET time == DelayTime(bpm, div)
        P1 == SafeTarget(P, E, "delayNodeL.delayTime", time)
        P2 == SafeTarget(P1, E, "delayNodeR.delayTime", time + (time * spread) \div 1000)
        P3 == SafeTarget(P2, E, "delayFeedback.gain", fb * 9) IN
    SafeTarget(P3, E, "delayFilter.frequency", 100 + tone * 140)

\* updateDelay, lines 361-373, as a function of the engine it finds
UpdateDelayEffect(P, E, bpm, div, fb, tone, spread) ==
    IF DelayGuard(E) THEN P ELSE DelayTargets(P, E, bpm, div, fb, tone, spread)

UpdateDelay(div, fb, tone, spread) ==
    /\ SetterCall("delay")
    /\ lastDelay' = [ div |-> div, fb |-> fb ]
    /\ params' = UpdateDelayEffect(params, Core, tempo, div, fb, tone, spread)
    /\ setterThrew' = (setterThrew \/ (~DelayGuard(Core) /\ ~NodeAssigned(Core)))
    /\ UNCHANGED << tubeCurve, tempo, rhythmCutoff >>

\* init(), lines 213-222: the connections of the delay network, source first
DelayWiring ==
    { << "chordDelaySend", "delayFilter" >>, << "harpDelaySend", "delayFilter" >>,
      << "rhythmDelaySend", "delayFilter" >>,
      << "delayFilter", "delayNodeL" >>, << "delayFilter", "delayNodeR" >>,
      << "delayNodeL", "delayFeedback" >>, << "delayNodeR", "delayFeedback" >>,
      << "delayFeedback", "delayFilter" >>,
      << "delayNodeL", "delayMerger" >>, << "delayNodeR", "delayMerger" >>,
      << "delayMerger", "delayOutput" >>, << "delayOutput", "masterGain" >> }

\* the delay lines on a path from the feedback node back to itself: the node
\* feeds them through the filter and sums their outputs at its input
LoopLines ==
    { x \in { "delayNodeL", "delayNodeR" } :
        /\ << "delayFeedback", "delayFilter" >> \in DelayWiring
        /\ << "delayFilter", x >> \in DelayWiring
        /\ << x, "delayFeedback" >> \in DelayWiring }

\* the gain around the feedback loop, in 1/1000: every line on the loop returns
\* the feedback node's output to its input once
LoopGain(P) == P["delayFeedback.gain"].target * Cardinality(LoopLines)

\* updateReverb, line 376: the early return
ReverbGuard(E) == ~NodeAssigned(E)

\* updateReverb, lines 375-380; the reverb gains are one parameter here, all
\* eight being given the same target
UpdateReverb(size, damp, width, color) ==
    /\ SetterCall("reverb")
    /\ IF ReverbGuard(Core)
       THEN UNCHANGED << params, setterThrew >>
       ELSE /\ params' =
                 LET P1 == SafeTarget(params, Core, "reverbGains.gain", 300 + (size * 13) \div 2)
                     P2 == SafeTarget(P1, Core, "reverbFilter.frequency",
                                      200 + (100 - damp) * 190) IN
                 IF NodeAssigned(Core)
                 THEN SafeTarget(P2, Core, "reverbPanner.pan", (width - 50) * 20)
                 ELSE P2
            /\ setterThrew' = (setterThrew \/ ~NodeAssigned(Core))
    /\ UNCHANGED << tubeCurve, tempo, rhythmCutoff >>

\* setSends, lines 383-391, for one source
SendTargets(P, E, source, delay, reverb) ==
    LET P1 == SafeTarget(P, E, source \o "Dry.gain", Max(0, 1000 - delay * 10 - reverb * 10))
        P2 == SafeTarget(P1, E, source \o "DelaySend.gain", delay * 10) IN
    SafeTarget(P2, E, source \o "ReverbSend.gain", reverb * 10)

\* setSends, lines 382-392
SetSends(s) ==
    /\ SetterCall("sends")
    /\ params' = SendTargets(
                    SendTargets(
                       SendTargets(params, Core, "chord", s.chordDelay, s.chordReverb),
                       Core, "harp", s.harpDelay, s.harpReverb),
                    Core, "rhythm", s.rhythmDelay, s.rhythmReverb)
    /\ UNCHANGED << tubeCurve, tempo, rhythmCutoff, setterThrew >>

\* init(), lines 175-183: the dry and send nodes come from createGain() and
\* init() sets no value on them; a gain node is created with gain 1
DefaultGain == 1000
MixSources == { "chord", "harp", "rhythm" }

\* the gain a dry or send node is heading for: the latest target, or the value
\* it was created with while no target has been scheduled
MixGain(P, name) == IF P[name].n = 0 THEN DefaultGain ELSE P[name].target

\* the dry gain of a source is the one setSends derives from its two sends
DryDerived(P, source) ==
    MixGain(P, source \o "Dry.gain") =
        Max(0, 1000 - MixGain(P, source \o "DelaySend.gain")
                    - MixGain(P, source \o "ReverbSend.gain"))

\* setVibrato, lines 344-358, for one tracked chord voice
VibratoApplied(v, amt, rate) ==
    IF amt > 0
    THEN [v EXCEPT !.lfo = [ on |-> TRUE, rate |-> rate, depth |-> amt * 25 ]]
    ELSE IF v.lfo.on THEN [v EXCEPT !.lfo.depth = 0] ELSE v

\* setVibrato, lines 338-359
SetVibrato(amt, rate) ==
    /\ CanCall
    /\ setterCalls < MaxSetterCalls
    /\ setterCalls' = setterCalls + 1
    /\ lastSetter' = [ name |-> "vibrato", built |-> graphBuilt ]
    /\ inTurn' = TRUE
    /\ vibratoAmount' = amt
    /\ vibratoRate' = rate
    /\ chordOscillators' =
          IF ctx = "null" THEN chordOscillators
          ELSE { VibratoApplied(v, amt, rate) : v \in chordOscillators }
    /\ UNCHANGED << initPromise, ctx, graphBuilt, audioOpened, masterTarget, ctxCount,
                    graphCount, attempts, initCalls, callerSaw, rhythmInterval, timers,
                    nextTimer, lastPattern, lastTick, bassEnabled, bassOscillators,
                    stopScheduled, nextCall, playStopCalls, waitInit, waitResume, ready >>
    /\ UNCHANGED << params, tubeCurve, tempo, rhythmCutoff, setterThrew, lastDelay,
                    currentTime >>
    /\ UNCHANGED << midiVars, instVars, accessVars, guardVars, calcVars >>

\* the audio clock advances between tasks; safeTarget reads it at line 118
AudioClock ==
    /\ ~inTurn
    /\ currentTime < MaxAudioTime
    /\ currentTime' = currentTime + 1
    /\ UNCHANGED << params, tubeCurve, tempo, rhythmCutoff, setterCalls, lastSetter,
                    setterThrew, lastDelay, vibratoAmount, vibratoRate >>
    /\ UNCHANGED << engineVars, midiVars, instVars, accessVars, guardVars, calcVars >>

\* the events of a parameter that still shape its value from time T on: those
\* starting later, and the latest of those already started
Governing(events, T) ==
    { e \in events :
        \/ e.at > T
        \/ \A f \in events : f.at <= T => f.at <= e.at }

\* App.handleStateChange({tempo: v}), src/services/audioEngine.ts lines 691-695:
\* setTempo, updateDelay and, with a pattern selected, startRhythm
HandleTempoChange(v, div, fb, tone, spread, o) ==
    /\ setterCalls < MaxSetterCalls
    /\ setterCalls' = setterCalls + 1
    /\ lastSetter' = [ name |-> "tempo", built |-> graphBuilt ]
    /\ tempo' = v
    /\ lastDelay' = [ div |-> div, fb |-> fb ]
    /\ UNCHANGED << vibratoAmount, vibratoRate, currentTime >>
    /\ params' = UpdateDelayEffect(params, Core, v, div, fb, tone, spread)
    /\ IF lastPattern # "None"
       THEN StartRhythmCall(lastPattern, o)
       ELSE /\ CanCall
            /\ inTurn' = TRUE
            /\ UNCHANGED << initPromise, ctx, graphBuilt, audioOpened, masterTarget,
                            ctxCount, graphCount, attempts, initCalls, callerSaw,
                            rhythmInterval, timers, nextTimer, lastPattern, lastTick,
                            bassEnabled, chordOscillators, bassOscillators,
                            stopScheduled, nextCall, playStopCalls, waitInit,
                            waitResume, ready >>
    /\ UNCHANGED << tubeCurve, rhythmCutoff, setterThrew >>
    /\ UNCHANGED << midiVars, instVars, accessVars, guardVars, calcVars >>

\* the field initialisers, lines 50-114
ParamInit ==
    /\ params = [ p \in ParamNames |-> [ n |-> 0, target |-> 0, events |-> {} ] ]
    /\ currentTime = 0
    /\ tubeCurve = -1
    /\ tempo = 120
    /\ rhythmCutoff = 100
    /\ setterCalls = 0
    /\ lastSetter = [ name |-> "none", built |-> FALSE ]
    /\ setterThrew = FALSE
    /\ lastDelay = [ div |-> "none", fb |-> 0 ]
    /\ vibratoAmount = 0
    /\ vibratoRate = 5

EngineInit ==
    /\ initPromise = "null"
    /\ ctx = "null"
    /\ graphBuilt = FALSE
    /\ audioOpened = FALSE
    /\ masterTarget = 0
    /\ ctxCount = 0
    /\ graphCount = 0
    /\ attempts = 0
    /\ initCalls = 0
    /\ callerSaw = {}
    /\ rhythmInterval = 0
    /\ timers = {}
    /\ nextTimer = 1
    /\ lastPattern = "None"
    /\ lastTick = [ id |-> 0, step |-> 0, drums |-> {} ]
    /\ bassEnabled = FALSE
    /\ chordOscillators = {}
    /\ bassOscillators = {}
    /\ stopScheduled = {}
    /\ nextCall = 1
    /\ playStopCalls = {}
    /\ waitInit = <<>>
    /\ waitResume = <<>>
    /\ ready = <<>>
    /\ inTurn = FALSE

(***************************************************************************)
(* MidiManager of src/services/midiService.ts.                             *)
(***************************************************************************)
LOCKOUT_DURATION_MS == 35
HARP_NOTE_OFF_MS == 250
CHORD_BASE_NOTE == 48
HARP_BASE_NOTE == 60
NOTE_OFF == 128
NOTE_ON == 144

\* status = command | (channel - 1); the command nibble has its low bits clear
Status(command, channel) == command + (channel - 1)
Command(status) == status - (status % 16)
Channel(status) == (status % 16) + 1

\* setLockout, lines 106-108
LockoutAfter(t) == t + LOCKOUT_DURATION_MS

\* broadcast, line 100: the incoming message is dropped
InLockout_Inclusive(t) == t <= lockoutUntil
InLockout(t) == t < lockoutUntil

\* lines 112-114 / 148-150
OutputsToSend_Fallback(outputId) ==
    IF outputId = "all" \/ outputId \notin outputs THEN outputs ELSE { outputId }
OutputsToSend(outputId) ==
    IF outputId = "all" THEN outputs ELSE { outputId } \cap outputs

\* sendChord, lines 123-135: what one output is handed
ChordMessages(active, chord, channel) ==
       [ i \in 1..Len(active) |-> << Status(NOTE_OFF, channel), active[i], 0 >> ]
    \o [ i \in 1..Len(chord) |-> << Status(NOTE_ON, channel), CHORD_BASE_NOTE + chord[i], 100 >> ]

\* sendChord, lines 130-138: what is tracked afterwards
NewNotes(chord) == [ i \in 1..Len(chord) |-> CHORD_BASE_NOTE + chord[i] ]

NoteOns(msgs) ==
    { << Channel(msgs[i][1]), msgs[i][2] >> : i \in { j \in 1..Len(msgs) : Command(msgs[j][1]) = NOTE_ON } }
NoteOffs(msgs) ==
    { << Channel(msgs[i][1]), msgs[i][2] >> : i \in { j \in 1..Len(msgs) : Command(msgs[j][1]) = NOTE_OFF } }

\* the receiving synthesizer: a note-off releases the note of its channel
RECURSIVE Sounding(_, _)
Sounding(h, msgs) ==
    IF msgs = << >> THEN h
    ELSE LET m == Head(msgs)
             k == << Channel(m[1]), m[2] >> IN
         Sounding(IF Command(m[1]) = NOTE_OFF THEN h \ {k} ELSE h \cup {k}, Tail(msgs))

\* sendChord, lines 121-142: the try block of one output runs to its end unless a
\* send() throws; the first send() of a port that throws leaves the block
Accepts(d, msgs) == d \in portOpen \/ msgs = << >>

\* sendChord, lines 110-144
SendChord(chord, outputId, channel) ==
    IF outputId = "none"
    THEN UNCHANGED << lockoutUntil, activeChordNotes, wire, prevOn, held,
                      lastSendAt, lastTransmitAt >>
    ELSE LET to == OutputsToSend(outputId)
             msgs == [ d \in Devices |-> ChordMessages(activeChordNotes[d], chord, channel) ]
             done == { d \in to : Accepts(d, msgs[d]) } IN
         /\ lockoutUntil' = IF to # {} THEN LockoutAfter(now) ELSE lockoutUntil
         /\ lastSendAt' = IF to # {} THEN now ELSE lastSendAt
         /\ lastTransmitAt' = IF \E d \in done : msgs[d] # << >> THEN now ELSE lastTransmitAt
         /\ activeChordNotes' = [ d \in Devices |->
                IF d \in done THEN NewNotes(chord) ELSE activeChordNotes[d] ]
         /\ wire' = [ d \in Devices |-> IF d \in done THEN msgs[d] ELSE wire[d] ]
         /\ prevOn' = [ d \in Devices |-> IF d \in done THEN NoteOns(wire[d]) ELSE prevOn[d] ]
         /\ held' = [ d \in Devices |-> IF d \in done THEN Sounding(held[d], msgs[d]) ELSE held[d] ]

\* sendHarpNote, lines 156-158, with the octave settings of INITIAL_STATE
INITIAL_OCTAVE == 0
INITIAL_HARP_OCTAVE == -1
HarpNote(chord, stringIndex, octave, harpOctave) ==
    HARP_BASE_NOTE + (octave + harpOctave) * 12
        + chord[(stringIndex % Len(chord)) + 1] + (stringIndex \div Len(chord)) * 12

\* the harp timer callback, line 163: it sends, and arms nothing
LockoutAfterTimer(t) == lockoutUntil

(***************************************************************************)
(* MidiManager: the public calls, the timers and the platform.             *)
(***************************************************************************)
AppUnchanged == UNCHANGED << midiChordOutputId, midiChordChannel >>
Sent == sends < MaxSends /\ sends' = sends + 1

\* sendChord called directly
ApiSendChord(chord, outputId, channel) ==
    /\ Sent
    /\ SendChord(chord, outputId, channel)
    /\ UNCHANGED << now, outputs, listeners, registrations, portVars, harpTimers, lastIn >>
    /\ AppUnchanged
    /\ UNCHANGED << engineVars, instVars, paramVars, accessVars, guardVars, calcVars >>

\* sendChord, lines 120-142, when the port of output `d` is unplugged while its
\* try block runs: send() hands over the first `n` messages of the block and
\* throws on the next one; the catch at line 140 ends the block, so neither
\* line 136 nor line 138 updates the table; the other outputs are served as usual
SendChordThrowing(chord, outputId, channel, d, n) ==
    LET to == OutputsToSend(outputId)
        msgs == [ e \in Devices |-> ChordMessages(activeChordNotes[e], chord, channel) ]
        done == { e \in to \ {d} : Accepts(e, msgs[e]) }
        sent == [ e \in Devices |-> IF e = d THEN SubSeq(msgs[d], 1, n) ELSE msgs[e] ] IN
    /\ d \in to \cap portOpen
    /\ n < Len(msgs[d])
    /\ portOpen' = portOpen \ {d}
    /\ lockoutUntil' = LockoutAfter(now)
    /\ lastSendAt' = now
    /\ lastTransmitAt' = IF \E e \in done \cup {d} : sent[e] # << >> THEN now ELSE lastTransmitAt
    /\ activeChordNotes' = [ e \in Devices |->
           IF e \in done THEN NewNotes(chord) ELSE activeChordNotes[e] ]
    /\ wire' = [ e \in Devices |-> IF e \in done \cup {d} THEN sent[e] ELSE wire[e] ]
    /\ prevOn' = [ e \in Devices |-> IF e \in done \cup {d} THEN NoteOns(wire[e]) ELSE prevOn[e] ]
    /\ held' = [ e \in Devices |->
           IF e \in done \cup {d} THEN Sounding(held[e], sent[e]) ELSE held[e] ]

ApiSendChordThrowing(chord, outputId, channel, d, n) ==
    /\ Sent
    /\ SendChordThrowing(chord, outputId, channel, d, n)
    /\ UNCHANGED << now, outputs, listeners, registrations, harpOn, harpOff, uncaught,
                    harpTimers, lastIn >>
    /\ AppUnchanged
    /\ UNCHANGED << engineVars, instVars, paramVars, accessVars, guardVars, calcVars >>

\* the notes the table of one output lists, on the channel the chords go out on
Tracked(d, channel) ==
    { << channel, activeChordNotes[d][i] >> : i \in 1..Len(activeChordNotes[d]) }

\* setTimeout at line 163: every call adds a timer of its own
HarpTimersAfter_Replacing(pending, offs) ==
    { t \in pending : ~\E o \in offs : o.dev = t.dev } \cup offs
HarpTimersAfter(pending, offs) == pending \cup offs

HarpKey(t) == [ dev |-> t.dev, status |-> t.status, note |-> t.note ]

\* sendHarpNote, lines 146-168: per output the note-on is sent and, when send()
\* returned, its note-off timer is set; a throwing send() skips the timer
SendHarpNote(chord, stringIndex, outputId, channel) ==
    LET to == OutputsToSend(outputId)
        handed == to \cap portOpen
        note == HarpNote(chord, stringIndex, INITIAL_OCTAVE, INITIAL_HARP_OCTAVE)
        offs == { [ due |-> now + HARP_NOTE_OFF_MS, dev |-> d,
                    status |-> Status(NOTE_OFF, channel), note |-> note,
                    at |-> now, seq |-> BagCardinality(harpOn) ] : d \in handed } IN
    /\ lockoutUntil' = IF to # {} THEN LockoutAfter(now) ELSE lockoutUntil
    /\ lastSendAt' = IF to # {} THEN now ELSE lastSendAt
    /\ lastTransmitAt' = IF handed # {} THEN now ELSE lastTransmitAt
    /\ harpTimers' = HarpTimersAfter(harpTimers, offs)
    /\ harpOn' = harpOn (+) SetToBag({ HarpKey(o) : o \in offs })

\* sendHarpNote called directly, while fewer than `room` timers are pending
CallSendHarpNote(chord, stringIndex, outputId, channel, room) ==
    /\ Sent
    /\ IF outputId = "none" \/ chord = NoChord
       THEN UNCHANGED << lockoutUntil, lastSendAt, lastTransmitAt, harpTimers, harpOn >>
       ELSE /\ Cardinality(harpTimers) + Cardinality(OutputsToSend(outputId)) <= room
            /\ SendHarpNote(chord, stringIndex, outputId, channel)
    /\ UNCHANGED << now, outputs, listeners, registrations, portOpen, harpOff, uncaught,
                    activeChordNotes, wire, prevOn, held, lastIn >>
    /\ AppUnchanged
    /\ UNCHANGED << engineVars, instVars, paramVars, accessVars, guardVars, calcVars >>

ApiSendHarpNote(chord, stringIndex, outputId, channel) ==
    CallSendHarpNote(chord, stringIndex, outputId, channel, MaxHarpTimers)

\* the timer set at line 163 fires: out.send([0x80 | (channel - 1), note, 0]),
\* on the port object the closure holds and outside every try block
FireHarpTimer(t) ==
    /\ t \in harpTimers
    /\ now >= t.due
    /\ harpTimers' = harpTimers \ {t}
    /\ harpOff' = harpOff (+) SetToBag({ HarpKey(t) })
    /\ uncaught' = IF t.dev \in portOpen THEN uncaught ELSE "harpTimer"
    /\ lastTransmitAt' = IF t.dev \in portOpen THEN now ELSE lastTransmitAt
    /\ lockoutUntil' = LockoutAfterTimer(now)
    /\ UNCHANGED << now, outputs, listeners, registrations, portOpen, harpOn,
                    activeChordNotes, wire, prevOn, held, lastSendAt, lastIn, sends >>
    /\ AppUnchanged
    /\ UNCHANGED << engineVars, instVars, paramVars, accessVars, guardVars, calcVars >>

\* the platform: an output port is unplugged or plugged in again; send() on an
\* unplugged port throws InvalidStateError
PortState(open) ==
    /\ portOpen' = open
    /\ UNCHANGED << now, lockoutUntil, outputs, listeners, registrations, activeChordNotes,
                    harpTimers, wire, prevOn, held, lastSendAt, lastTransmitAt, lastIn,
                    sends, harpOn, harpOff, uncaught >>
    /\ AppUnchanged
    /\ UNCHANGED << engineVars, instVars, paramVars, accessVars, guardVars, calcVars >>

\* broadcast, line 103: forEach over the Set calls each member once
Deliveries_PerRegistration(l) == registrations[l]
Deliveries(l) == IF l \in listeners THEN 1 ELSE 0

\* input.onmidimessage -> broadcast, lines 98-104
Incoming ==
    /\ lastIn' = [ handled |-> TRUE, afterSend |-> lastSendAt >= 0,
                   sinceSend |-> IF lastSendAt >= 0 THEN now - lastSendAt ELSE 0,
                   suppressed |-> InLockout(now),
                   to |-> listeners,
                   regs |-> registrations,
                   got |-> [ l \in Listeners |->
                               IF ~InLockout(now) THEN Deliveries(l) ELSE 0 ] ]
    /\ UNCHANGED << now, lockoutUntil, outputs, listeners, registrations, portVars, activeChordNotes, harpTimers,
                    wire, prevOn, held, lastSendAt, lastTransmitAt, sends >>
    /\ AppUnchanged
    /\ UNCHANGED << engineVars, instVars, paramVars, accessVars, guardVars, calcVars >>

\* addListener, lines 90-92: Set.add
AddListener(l) ==
    /\ registrations[l] < MaxRegistrations
    /\ registrations' = [registrations EXCEPT ![l] = @ + 1]
    /\ listeners' = listeners \cup {l}
    /\ UNCHANGED << now, lockoutUntil, outputs, activeChordNotes, harpTimers, wire,
                    prevOn, held, lastSendAt, lastTransmitAt, lastIn, sends, portVars >>
    /\ AppUnchanged
    /\ UNCHANGED << engineVars, instVars, paramVars, accessVars, guardVars, calcVars >>

\* removeListener, lines 94-96: Set.delete
RemoveListener(l) ==
    /\ registrations' = [registrations EXCEPT ![l] = 0]
    /\ listeners' = listeners \ {l}
    /\ UNCHANGED << now, lockoutUntil, outputs, activeChordNotes, harpTimers, wire,
                    prevOn, held, lastSendAt, lastTransmitAt, lastIn, sends, portVars >>
    /\ AppUnchanged
    /\ UNCHANGED << engineVars, instVars, paramVars, accessVars, guardVars, calcVars >>

\* updateDevices, lines 65-68: the output table is rebuilt from the platform's ports
UpdateDevices(ports) ==
    /\ outputs' = ports
    /\ UNCHANGED << now, lockoutUntil, listeners, registrations, portVars, activeChordNotes, harpTimers, wire,
                    prevOn, held, lastSendAt, lastTransmitAt, lastIn, sends >>
    /\ AppUnchanged
    /\ UNCHANGED << engineVars, instVars, paramVars, accessVars, guardVars, calcVars >>

\* the instants at which the clock is observed: the last instant inside the
\* lockout window, its end, the instant after, and the due times of the timers
Instants ==
    { lockoutUntil - 1, lockoutUntil, lockoutUntil + 1 } \cup { t.due : t \in harpTimers }

\* the clock moves on to a later instant
Advance(t) ==
    /\ t > now
    /\ t <= MaxTime
    /\ now' = t
    /\ UNCHANGED << lockoutUntil, outputs, listeners, registrations, portVars, activeChordNotes, harpTimers, wire,
                    prevOn, held, lastSendAt, lastTransmitAt, lastIn, sends >>
    /\ AppUnchanged
    /\ UNCHANGED << engineVars, instVars, paramVars, accessVars, guardVars, calcVars >>

(***************************************************************************)
(* The App handlers of src/services/audioEngine.ts that drive sendChord.   *)
(* Their audio-engine calls touch engine state only, which these           *)
(* specifications hold at rest.                                            *)
(***************************************************************************)
MidiRest == UNCHANGED << now, outputs, listeners, registrations, portVars, harpTimers, lastIn, sends >>

\* handleChordPress, lines 562-570
HandleChordPress(chord) ==
    /\ IF midiChordOutputId # "none"
       THEN SendChord(chord, midiChordOutputId, midiChordChannel)
       ELSE UNCHANGED << lockoutUntil, activeChordNotes, wire, prevOn, held,
                         lastSendAt, lastTransmitAt >>
    /\ MidiRest
    /\ AppUnchanged
    /\ UNCHANGED << engineVars, instVars, paramVars, accessVars, guardVars, calcVars >>

\* handleKillChord, lines 669-677
HandleKillChord ==
    /\ SendChord(NoChord, midiChordOutputId, midiChordChannel)
    /\ MidiRest
    /\ AppUnchanged
    /\ UNCHANGED << engineVars, instVars, paramVars, accessVars, guardVars, calcVars >>

\* handleStateChange({midiChordOutputId}), lines 679-682
SetChordOutput(outputId) ==
    /\ midiChordOutputId' = outputId
    /\ UNCHANGED << now, lockoutUntil, outputs, listeners, registrations, portVars, activeChordNotes, harpTimers,
                    wire, prevOn, held, lastSendAt, lastTransmitAt, lastIn, sends,
                    midiChordChannel >>
    /\ UNCHANGED << engineVars, instVars, paramVars, accessVars, guardVars, calcVars >>

\* handleStateChange({midiChordChannel}), lines 679-682
SetChordChannel(channel) ==
    /\ midiChordChannel' = channel
    /\ UNCHANGED << now, lockoutUntil, outputs, listeners, registrations, portVars, activeChordNotes, harpTimers,
                    wire, prevOn, held, lastSendAt, lastTransmitAt, lastIn, sends,
                    midiChordOutputId >>
    /\ UNCHANGED << engineVars, instVars, paramVars, accessVars, guardVars, calcVars >>

(***************************************************************************)
(* MidiInstrument of src/temp/App-1.tsx on the MidiManager of              *)
(* src/temp/MidiManager.ts, whose sendMidi broadcasts what it sends.       *)
(***************************************************************************)
InputIds == { "all", "in1", "out1" }
InputChannels == { 0, 1, 2 }
OutputIds == { "none", "out1" }
InStatuses == { Status(NOTE_ON, 1), Status(NOTE_ON, 2) }
InDevices == { "in1" }

Frame(message, deviceId) == [ message |-> message, deviceId |-> deviceId, pc |-> "enter" ]
Top == callStack[Len(callStack)]
Popped == SubSeq(callStack, 1, Len(callStack) - 1)

\* handleMidiEvent, lines 158-168: the device and channel filters
IsInputMatch(deviceId) == config.inputId = "all" \/ config.inputId = deviceId
IsChannelMatch(status) == config.inputChannel = 0 \/ config.inputChannel = Channel(status)

\* what a run of handleMidiEvent did with its frame: whether line 171 called
\* the callbacks, and the message line 176 handed to sendMidi (<< >>: none)
Handled(f, callbacks, sent) ==
    [ message |-> f.message, deviceId |-> f.deviceId, callbacks |-> callbacks,
      thru |-> IF sent
               THEN << Status(Command(f.message[1]), config.outputChannel),
                       f.message[2], f.message[3] >>
               ELSE << >> ]

\* handleMidiEvent, lines 174-176: the frame routes its message to the output
Routes(f) ==
    /\ IsInputMatch(f.deviceId)
    /\ IsChannelMatch(f.message[1])
    /\ config.outputId # "none"

\* line 175
OutMessage(message) ==
    << Status(Command(message[1]), config.outputChannel), message[2], message[3] >>

\* updateConfig, lines 144-146
UpdateConfig(newConfig) ==
    /\ callStack = << >>
    /\ config' = newConfig
    /\ UNCHANGED << callStack, thruSends, lastEvent >>
    /\ UNCHANGED << engineVars, midiVars, paramVars, accessVars, guardVars, calcVars >>

\* input.onmidimessage -> broadcast -> handleMidiEvent (MidiManager.ts lines 64-66, 103-105)
MidiIn(status, deviceId) ==
    /\ callStack = << >>
    /\ callStack' = << Frame(<< status, 60, 100 >>, deviceId) >>
    /\ thruSends' = 0
    /\ UNCHANGED << config, lastEvent >>
    /\ UNCHANGED << engineVars, midiVars, paramVars, accessVars, guardVars, calcVars >>

\* handleMidiEvent, lines 156-178: filtered out it returns; otherwise it calls
\* sendMidi (MidiManager.ts lines 94-101), whose broadcast enters
\* handleMidiEvent again with the sent message and the output's id
HandleMidiEvent ==
    /\ callStack # << >>
    /\ Top.pc = "enter"
    /\ IF Routes(Top)
       THEN /\ Len(callStack) < MaxDepth
            /\ callStack' = Append([ callStack EXCEPT ![Len(callStack)].pc = "sent" ],
                                   Frame(OutMessage(Top.message), config.outputId))
            /\ thruSends' = thruSends + 1
       ELSE /\ callStack' = Popped
            /\ UNCHANGED thruSends
    /\ lastEvent' = Handled(Top, IsInputMatch(Top.deviceId) /\ IsChannelMatch(Top.message[1]),
                            Routes(Top))
    /\ UNCHANGED config
    /\ UNCHANGED << engineVars, midiVars, paramVars, accessVars, guardVars, calcVars >>

\* sendMidi has returned into the frame that called it: the frame returns
ReturnFromSend ==
    /\ callStack # << >>
    /\ Top.pc = "sent"
    /\ callStack' = Popped
    /\ UNCHANGED << config, thruSends, lastEvent >>
    /\ UNCHANGED << engineVars, midiVars, paramVars, accessVars, guardVars, calcVars >>

\* the calls of a routing frame that can exhaust the stack: the callback
\* loop of line 171, sendMidi of line 176, and the broadcast inside sendMidi
\* (MidiManager.ts line 100) that follows output.send
OverflowAt == { "callbacks", "sendMidi", "broadcast" }

\* the call stack is full and the frame on top would call again: the
\* RangeError is raised at one of the frame's calls and unwinds every frame
StackOverflow(at) ==
    /\ callStack # << >>
    /\ Top.pc = "enter"
    /\ Routes(Top)
    /\ Len(callStack) = MaxDepth
    /\ callStack' = << >>
    /\ lastEvent' = Handled(Top, at # "callbacks", at = "broadcast")
    /\ UNCHANGED << config, thruSends >>
    /\ UNCHANGED << engineVars, midiVars, paramVars, accessVars, guardVars, calcVars >>

(***************************************************************************)
(* MIDI access: init() of src/services/midiService.ts (lines 31-54) and    *)
(* requestAccess() of src/temp/MidiManager.ts (lines 30-51), the platform  *)
(* answering their requests, and the control panel's refresh.              *)
(***************************************************************************)
Managers == { "midiService", "MidiManager" }
PlatformPorts == { {}, {"o1"} }

DeviceTable(m) == IF m = "midiService" THEN outputs ELSE tmOutputs

MidiExceptOutputs ==
    << now, lockoutUntil, listeners, registrations, portVars, activeChordNotes, harpTimers,
       wire, prevOn, held, lastSendAt, lastTransmitAt, lastIn, sends,
       midiChordOutputId, midiChordChannel >>

Requesting(m) == \E c \in calls : c.m = m /\ c.pc # "done"

\* the bridge states of the main app's manager
BridgeState ==
    IF mgr["midiService"].initialized THEN "READY"
    ELSE IF Requesting("midiService") THEN "REQUESTING"
    ELSE IF \E c \in calls : c.m = "midiService" THEN "UNAVAILABLE"
    ELSE "UNINITIALIZED"

\* the record of a call that has just been made, up to its first await or return:
\* midiService.ts lines 32-40, MidiManager.ts lines 31-36
NewCall(m, api) ==
    LET c == [ m |-> m, id |-> Cardinality(calls) + 1, pc |-> "done", asked |-> << >>,
               refused |-> 0, api |-> api, result |-> "void",
               flag |-> mgr[m].supported, outs |-> DeviceTable(m) ] IN
    IF m = "midiService" /\ mgr[m].initialized THEN [ c EXCEPT !.api = "unprobed" ]
    ELSE IF api = "no"
         THEN [ c EXCEPT !.result = IF m = "midiService" THEN "void" ELSE "notPhysical" ]
         ELSE [ c EXCEPT !.pc = "sysex", !.asked = << TRUE >>, !.result = "none" ]

\* the first probe of navigator.requestMIDIAccess finds the API present or absent
Probe(m, api) ==
    /\ hasApi \in { "unknown", api }
    /\ hasApi' = IF m = "midiService" /\ mgr[m].initialized THEN hasApi ELSE api

AccessRest ==
    /\ UNCHANGED << engineVars, instVars, paramVars, guardVars, calcVars >>
    /\ UNCHANGED MidiExceptOutputs

\* midiService.init() called by the App (audioEngine.ts lines 520, 558)
MidiServiceInit(api) ==
    /\ Cardinality(calls) < MaxAccessCalls
    /\ Probe("midiService", api)
    /\ calls' = calls \cup { NewCall("midiService", api) }
    /\ UNCHANGED << mgr, tmOutputs, refreshes, outputs >>
    /\ AccessRest

\* requestAccess() of temp/MidiManager.ts (constructor line 20, App-1.tsx lines 36, 59)
RequestAccess(api) ==
    /\ Cardinality(calls) < MaxAccessCalls
    /\ Probe("MidiManager", api)
    /\ calls' = calls \cup { NewCall("MidiManager", api) }
    /\ UNCHANGED << mgr, tmOutputs, refreshes, outputs >>
    /\ AccessRest

\* handleRefreshDevices, ControlPanel.tsx lines 136-149: midiService.init() is
\* called and not awaited, then the device list is read
HandleRefreshDevices(api) ==
    /\ Cardinality(calls) < MaxAccessCalls
    /\ Probe("midiService", api)
    /\ LET c == NewCall("midiService", api) IN
         /\ calls' = calls \cup { c }
         /\ refreshes' = refreshes \cup
                { [ id |-> c.id, from |-> BridgeState, requested |-> c.asked # << >> ] }
    /\ UNCHANGED << mgr, tmOutputs, outputs >>
    /\ AccessRest

\* the platform grants a pending request: midiService.ts lines 50-53,
\* MidiManager.ts lines 37-39 / 44-46 with setupMidiAccess and updateDevices
Grant(c, ports) ==
    /\ c \in calls
    /\ c.pc \in { "sysex", "fallback" }
    /\ mgr' = [ mgr EXCEPT ![c.m] = [ held |-> TRUE, supported |-> TRUE,
                                      initialized |-> (c.m = "midiService") ] ]
    /\ outputs' = IF c.m = "midiService" THEN ports ELSE outputs
    /\ tmOutputs' = IF c.m = "MidiManager" THEN ports ELSE tmOutputs
    /\ calls' = (calls \ {c}) \cup
          { [ c EXCEPT !.pc = "done", !.flag = TRUE, !.outs = ports,
                       !.result = IF c.m = "midiService" THEN "void" ELSE "physical" ] }
    /\ UNCHANGED << hasApi, refreshes >>
    /\ AccessRest

\* the platform refuses a pending request: the sysex request is followed by the
\* request without sysex (midiService.ts lines 41-43, MidiManager.ts lines 40-43),
\* the second refusal ends the call (lines 44-47 / 47-49)
Refuse(c) ==
    /\ c \in calls
    /\ c.pc \in { "sysex", "fallback" }
    /\ calls' = (calls \ {c}) \cup
          { IF c.pc = "sysex"
            THEN [ c EXCEPT !.pc = "fallback", !.asked = Append(@, FALSE), !.refused = 1 ]
            ELSE [ c EXCEPT !.pc = "done", !.refused = 2, !.flag = mgr[c.m].supported,
                            !.outs = DeviceTable(c.m),
                            !.result = IF c.m = "midiService" THEN "void" ELSE "notPhysical" ] }
    /\ UNCHANGED << hasApi, mgr, tmOutputs, refreshes, outputs >>
    /\ AccessRest

\* midiAccess.onstatechange -> updateDevices of temp/MidiManager.ts, lines 55-71
TmUpdateDevices(ports) ==
    /\ mgr["MidiManager"].held
    /\ tmOutputs' = ports
    /\ UNCHANGED << hasApi, mgr, calls, refreshes, outputs >>
    /\ AccessRest

AccessInit ==
    /\ hasApi = "unknown"
    /\ mgr = [ m \in Managers |-> [ held |-> FALSE, supported |-> FALSE, initialized |-> FALSE ] ]
    /\ tmOutputs = {}
    /\ calls = {}
    /\ refreshes = {}

\* Date.now() when the page is loaded, in ms: far more than the guard's window
LOAD_TIME == 1000

GuardInit ==
    /\ lastMidiTime = 0 - LOAD_TIME
    /\ midiEventCounter = 0
    /\ passTimes = << >>
    /\ lastVerdict = [ passed |-> FALSE, before |-> 0, id |-> "none" ]
    /\ arrivals = << >>

(***************************************************************************)
(* The storm guard of App.handleMidiMessage, src/services/audioEngine.ts   *)
(* lines 595-606. Date.now() is LOAD_TIME + now.                           *)
(***************************************************************************)
STORM_WINDOW_MS == 100
STORM_THRESHOLD == 12
MidiInputId == "all"

\* line 600
Within(t) == t - lastMidiTime < STORM_WINDOW_MS

\* lines 600-602: the message is dropped
StormDropped_Never(within, counter) == FALSE
StormDropped(within, counter) == within /\ counter > STORM_THRESHOLD

MidiExceptNow ==
    << lockoutUntil, outputs, listeners, registrations, portVars, activeChordNotes,
       harpTimers, wire, prevOn, held, lastSendAt, lastTransmitAt, lastIn, sends,
       midiChordOutputId, midiChordChannel >>

\* handleMidiMessage, lines 595-606: the input filter and the guard; what
\* follows line 606 is reached by the messages that pass
StormGuard(id) ==
    /\ midiEventCounter < MaxCounter
    /\ MidiInputId # "none"
    /\ MidiInputId = "all" \/ MidiInputId = id
    /\ LET counter == IF Within(now) THEN midiEventCounter + 1 ELSE 0
           dropped == StormDropped(Within(now), counter) IN
         /\ midiEventCounter' = counter
         /\ lastMidiTime' = IF dropped THEN lastMidiTime ELSE now
         /\ passTimes' = IF dropped THEN passTimes ELSE Append(passTimes, now)
         /\ lastVerdict' = [ passed |-> ~dropped, before |-> Len(passTimes), id |-> id ]
    /\ UNCHANGED << engineVars, midiVars, instVars, paramVars, accessVars, calcVars >>

HandleMidiMessage(id) == StormGuard(id) /\ UNCHANGED arrivals

\* handleMidiMessage for a message of the watched device, which sends only
\* while it has sent fewer than STORM_THRESHOLD messages in the 100 ms up to now
WatchedMessage(id) ==
    /\ Len(arrivals) < STORM_THRESHOLD
    /\ arrivals' = Append(arrivals, now)
    /\ StormGuard(id)

\* time passes; passTimes keeps the passes of the 100 ms that end now
Elapse(d) ==
    /\ now + d <= MaxTime
    /\ now' = now + d
    /\ passTimes' = SelectSeq(passTimes, LAMBDA t : t > now + d - STORM_WINDOW_MS)
    /\ arrivals' = SelectSeq(arrivals, LAMBDA t : t > now + d - STORM_WINDOW_MS)
    /\ UNCHANGED << lastMidiTime, midiEventCounter, lastVerdict >>
    /\ UNCHANGED MidiExceptNow
    /\ UNCHANGED << engineVars, instVars, paramVars, accessVars, calcVars >>

(***************************************************************************)
(* The chord tables of src/constants.tsx and the messages sendChord and    *)
(* sendHarpNote build from them.                                           *)
(***************************************************************************)
\* ROOTS, lines 4-17: the offsets
RootOffsets == 0..11
\* the rows of lines 29-41
RowIntervals ==
    { <<0, 4, 7>>, <<0, 3, 7>>, <<0, 4, 7, 10>>, <<0, 3, 7, 10>>, <<0, 4, 7, 11>>,
      <<0, 4, 7, 14>>, <<0, 5, 7>>, <<0, 7>>, <<0, 3, 6, 10>> }
\* generateRow, lines 19-27
GenerateRow(intervals, offset) == [ i \in 1..Len(intervals) |-> intervals[i] + offset ]
ChordTable == { GenerateRow(p, r) : p \in RowIntervals, r \in RootOffsets }

\* SonicStrings.tsx line 18, ControlPanel.tsx line 208, the channel inputs
AllStrings == 0..13
HarpOctaves == -2..1
MidiChannels == { 1, 16 }

\* sendHarpNote, lines 162-163: the note-on and the note-off of the timer
HarpMessages(chord, stringIndex, octave, harpOctave, channel) ==
    LET note == HarpNote(chord, stringIndex, octave, harpOctave) IN
    << << Status(NOTE_ON, channel), note, 110 >>, << Status(NOTE_OFF, channel), note, 0 >> >>

CalcRest ==
    UNCHANGED << engineVars, midiVars, instVars, paramVars, accessVars, guardVars >>

\* sendChord for a chord of the tables, to an output that tracks `active`
ChordBytes(active, chord, channel) ==
    /\ calcIn' = [ fn |-> "sendChord", chord |-> chord, channel |-> channel,
                   active |-> active ]
    /\ calcOut' = ChordMessages(active, chord, channel)
    /\ CalcRest

\* sendHarpNote for a chord of the tables, a string and a harp octave setting
HarpBytes(chord, stringIndex, harpOctave, channel) ==
    /\ calcIn' = [ fn |-> "sendHarpNote", chord |-> chord, channel |-> channel,
                   stringIndex |-> stringIndex, harpOctave |-> harpOctave ]
    /\ calcOut' = HarpMessages(chord, stringIndex, INITIAL_OCTAVE, harpOctave, channel)
    /\ CalcRest

\* playHarpNote, src/unnamed/part_001 lines 487-489: the pitch of the oscillator
\* in semitones above 261.63 Hz, the frequency being 261.63 * 2^(semitones / 12)
HarpSemitones_SameOctave(chord, index, octaveShift, harpOctaveShift) ==
    12 * (octaveShift + harpOctaveShift) + chord[(index % Len(chord)) + 1]
HarpSemitones(chord, index, octaveShift, harpOctaveShift) ==
    12 * (octaveShift + harpOctaveShift)
        + chord[(index % Len(chord)) + 1] + (index \div Len(chord)) * 12

\* what one pluck of string `index` makes: the oscillator's pitch and the note
\* number sendHarpNote puts in its messages
Plucked(chord, index, harpOctave) ==
    [ synth |-> HarpSemitones(chord, index, INITIAL_OCTAVE, harpOctave),
      midi |-> HarpNote(chord, index, INITIAL_OCTAVE, harpOctave) ]

\* string k and the string one chord length above it, plucked in turn
PluckPair(chord, k, harpOctave) ==
    /\ calcIn' = [ fn |-> "playHarpNote", chord |-> chord, index |-> k,
                   harpOctave |-> harpOctave ]
    /\ calcOut' = [ lower |-> Plucked(chord, k, harpOctave),
                    upper |-> Plucked(chord, k + Len(chord), harpOctave) ]
    /\ CalcRest

\* string k and the string next to it (SonicStrings: strings 0..13), plucked in turn
PluckNeighbours(chord, k, harpOctave) ==
    /\ calcIn' = [ fn |-> "strum", chord |-> chord, index |-> k,
                   harpOctave |-> harpOctave ]
    /\ calcOut' = [ lower |-> Plucked(chord, k, harpOctave),
                    upper |-> Plucked(chord, k + 1, harpOctave) ]
    /\ CalcRest

\* startRhythm, lines 517-520: the interval timer of a pattern with its step
\* counter; `tick` counts the callbacks run, `kicks` the ticks that played a kick
StartInterval(pattern) ==
    /\ calcIn' = [ fn |-> "setInterval", pattern |-> pattern, step |-> 0, tick |-> 0,
                   kicks |-> {} ]
    /\ calcOut' = {}
    /\ CalcRest

\* the interval callback, lines 520-598: s = step % 16, the pattern's drums,
\* step = (step + 1) % 48
IntervalCallback ==
    /\ calcIn.fn = "setInterval"
    /\ calcIn.tick < MaxTicks
    /\ LET drums == Drums(calcIn.pattern, calcIn.step % 16) IN
         /\ calcOut' = drums
         /\ calcIn' = [ calcIn EXCEPT !.step = (@ + 1) % 48, !.tick = @ + 1,
                                      !.kicks = IF "kick" \in drums
                                                THEN @ \cup { calcIn.tick } ELSE @ ]
    /\ CalcRest

\* the call has returned
CalcReturn ==
    /\ calcIn.fn # "none"
    /\ calcIn' = [ fn |-> "none" ]
    /\ calcOut' = << >>
    /\ CalcRest

CalcInit ==
    /\ calcIn = [ fn |-> "none" ]
    /\ calcOut = << >>

\* the instrument of App-1.tsx lines 20-27
InstInit ==
    /\ config = [ inputId |-> "all", inputChannel |-> 0, outputId |-> "none",
                  outputChannel |-> 1 ]
    /\ callStack = << >>
    /\ thruSends = 0
    /\ lastEvent = [ message |-> << >>, deviceId |-> "none", callbacks |-> FALSE,
                     thru |-> << >> ]

MidiInit ==
    /\ now = 0
    /\ lockoutUntil = 0
    /\ outputs = {}
    /\ listeners = {}
    /\ registrations = [ l \in Listeners |-> 0 ]
    /\ activeChordNotes = [ d \in Devices |-> << >> ]
    /\ harpTimers = {}
    /\ wire = [ d \in Devices |-> << >> ]
    /\ prevOn = [ d \in Devices |-> {} ]
    /\ held = [ d \in Devices |-> {} ]
    /\ lastSendAt = -1
    /\ lastTransmitAt = -1
    /\ lastIn = [ handled |-> FALSE, afterSend |-> FALSE, sinceSend |-> 0,
                  suppressed |-> FALSE, to |-> {},
                  regs |-> [ l \in Listeners |-> 0 ],
                  got |-> [ l \in Listeners |-> 0 ] ]
    /\ sends = 0
    /\ portOpen = Devices
    /\ harpOn = EmptyBag
    /\ harpOff = EmptyBag
    /\ uncaught = "none"
    /\ midiChordOutputId = "none"
    /\ midiChordChannel = 1

\* the lockout window: direct sends, the harp timer, incoming messages, the clock
LockoutNext ==
    \/ \E c \in { NoChord, <<0, 4, 7>> }, o \in { "all" } : ApiSendChord(c, o, 1)
    \/ \E i \in StringIndexes, o \in { "o1" } : ApiSendHarpNote(<<0, 4, 7>>, i, o, 2)
    \/ \E t \in harpTimers : FireHarpTimer(t)
    \/ Incoming
    \/ \E l \in Listeners \ listeners : AddListener(l)
    \/ \E l \in Listeners : RemoveListener(l)
    \/ \E ports \in { {}, {"o1"} } : UpdateDevices(ports)
    \/ \E t \in Instants : Advance(t)

\* sends to every output selector while the devices come and go
NoOutputNext ==
    \/ \E c \in { NoChord, <<0, 4, 7>> }, o \in OutputSelectors : ApiSendChord(c, o, 1)
    \/ \E o \in OutputSelectors : ApiSendHarpNote(<<0, 4, 7>>, 3, o, 2)
    \/ \E t \in harpTimers : FireHarpTimer(t)
    \/ Incoming
    \/ \E ports \in { {}, {"o1"} } : UpdateDevices(ports)
    \/ \E t \in Instants : Advance(t)

\* chords sent on one channel to ports that may be unplugged before or during
\* a sendChord
TrackingChords == { NoChord, <<0, 4, 7>>, <<0, 3, 7>> }
TrackingNext ==
    \/ \E c \in TrackingChords, o \in { "o1", "all" } : ApiSendChord(c, o, 1)
    \/ \E c \in TrackingChords, o \in { "o1", "all" }, d \in Devices, n \in 0..MaxThrowAt :
          ApiSendChordThrowing(c, o, 1, d, n)
    \/ \E ports \in { {"o1"}, {"o1", "o2"} } : UpdateDevices(ports)
    \/ \E open \in SUBSET Devices : PortState(open)

\* listener registration: callbacks registered (also repeatedly) and removed
\* around incoming messages and the lockout window of a chord send
ListenerNext ==
    \/ \E l \in Listeners : AddListener(l)
    \/ \E l \in Listeners : RemoveListener(l)
    \/ Incoming
    \/ ApiSendChord(<<0, 4, 7>>, "all", 1)
    \/ UpdateDevices({"o1"})
    \/ \E t \in Instants : Advance(t)

\* harp notes out: harp and chord sends, the note-off timers, ports that are
\* unplugged and plugged in again, device table rebuilds and the clock; a harp
\* note is sent while its note-off falls inside the modelled time
HarpStrings == { 0, 1 }
HarpNext ==
    \/ \E i \in HarpStrings, o \in { "o1" } :
          /\ now + HARP_NOTE_OFF_MS <= MaxTime
          /\ CallSendHarpNote(<<0, 4, 7>>, i, o, 2, MaxPending)
    \/ ApiSendChord(<<0, 4, 7>>, "all", 2)
    \/ \E t \in harpTimers : FireHarpTimer(t)
    \/ \E open \in { Devices, Devices \ {"o1"} } : PortState(open)
    \/ \E ports \in { {}, {"o1"} } : UpdateDevices(ports)
    \/ \E t \in Instants : Advance(t)

\* MIDI access: both managers are asked for access, also repeatedly, the
\* platform grants or refuses every request, ports come and go, the panel refreshes
AccessNext ==
    \/ \E api \in { "yes", "no" } : MidiServiceInit(api)
    \/ \E api \in { "yes", "no" } : RequestAccess(api)
    \/ \E api \in { "yes", "no" } : HandleRefreshDevices(api)
    \/ \E c \in calls, ports \in PlatformPorts : Grant(c, ports)
    \/ \E c \in calls : Refuse(c)
    \/ \E ports \in PlatformPorts : mgr["midiService"].held /\ UpdateDevices(ports)
    \/ \E ports \in PlatformPorts : TmUpdateDevices(ports)

\* the storm guard: messages arrive in the same millisecond or after a gap
Gaps == { 50, 99, 100 }
StormNext ==
    \/ \E id \in InDevices : HandleMidiMessage(id)
    \/ \E d \in Gaps : Elapse(d)

\* the storm guard with two devices: the watched device in1 keeps to the rate
\* limit, the device in2 sends freely
SourcesNext ==
    \/ WatchedMessage("in1")
    \/ HandleMidiMessage("in2")
    \/ \E d \in Gaps : Elapse(d)

\* no call is in progress
Idle == calcIn.fn = "none"

\* the bytes on the wire, one call at a time: every chord of the tables, after
\* any chord of the tables; every string, harp octave setting and channel
BytesNext ==
    \/ /\ Idle
       /\ \E prev \in ChordTable \cup { NoChord }, c \in ChordTable, ch \in MidiChannels :
             ChordBytes(NewNotes(prev), c, ch)
    \/ /\ Idle
       /\ \E c \in ChordTable, i \in AllStrings, o \in HarpOctaves, ch \in MidiChannels :
             HarpBytes(c, i, o, ch)
    \/ CalcReturn

\* the harp strings of every chord of the tables
PitchNext ==
    \/ /\ Idle
       /\ \E c \in ChordTable, k \in AllStrings, o \in HarpOctaves : PluckPair(c, k, o)
    \/ CalcReturn

\* neighbouring strings of the harp, for every chord of the tables
StrumNext ==
    \/ /\ Idle
       /\ \E c \in ChordTable, k \in AllStrings \ {13}, o \in HarpOctaves :
             PluckNeighbours(c, k, o)
    \/ CalcReturn

\* one interval timer running through its 48-step counter cycle
CycleNext ==
    \/ /\ Idle
       /\ \E p \in { "Rock 1", "Waltz", "Jazz Waltz" } : StartInterval(p)
    \/ IntervalCallback
    \/ CalcReturn

\* chord-out tracking: the chord buttons, the kill switch and the MIDI settings
ChordOutNext ==
    \/ \E c \in Chords : HandleChordPress(c)
    \/ HandleKillChord
    \/ \E o \in OutputSelectors : SetChordOutput(o)
    \/ \E c \in Channels : SetChordChannel(c)
    \/ \E ports \in { {"o1"}, {"o1", "o2"} } : UpdateDevices(ports)

\* the instrument filter layer: configuration changes and incoming messages
InstNext ==
    \/ \E i \in InputIds, ic \in InputChannels, o \in OutputIds, oc \in Channels :
          UpdateConfig([ inputId |-> i, inputChannel |-> ic, outputId |-> o,
                         outputChannel |-> oc ])
    \/ \E st \in InStatuses, d \in InDevices : MidiIn(st, d)
    \/ HandleMidiEvent
    \/ ReturnFromSend
    \/ \E at \in OverflowAt : StackOverflow(at)

\* the event loop and the platform, shared by the engine specifications
LoopNext ==
    \/ EndTurn
    \/ RunMicrotask
    \/ ResumeResolves
    \/ ResumeRejects

\* the graph parameter setters around init()
SetterNext ==
    \/ \E o \in InitOutcomes : CallInit(o)
    \/ \E v \in Levels : SetChordVolume(v)
    \/ \E v \in Levels : SetHarpVolume(v)
    \/ \E v \in Levels : SetRhythmVolume(v)
    \/ \E v \in Levels : SetBassVolume(v)
    \/ \E v \in Levels : SetRhythmCutoff(v)
    \/ \E e \in BOOLEAN, w \in Levels : SetTubeAmp(e, 10, w)
    \/ \E d \in Divisions, fb \in Levels : UpdateDelay(d, fb, 50, 30)
    \/ \E size \in Levels : UpdateReverb(size, 30, 50, 20)
    \/ \E d, r \in Levels :
          SetSends([ chordDelay |-> d, chordReverb |-> r, harpDelay |-> d,
                     harpReverb |-> r, rhythmDelay |-> d, rhythmReverb |-> r ])
    \/ LoopNext

\* the delay controls around init(): the tempo field, every division of
\* either table and one outside both, feedback up to and past 1
DelayNext ==
    \/ \E o \in InitOutcomes : CallInit(o)
    \/ \E v \in DelayTempos : SetTempo(v)
    \/ \E d \in AllDivisions, fb \in Feedbacks : UpdateDelay(d, fb, 50, 30)
    \/ LoopNext

\* setTempo with any number, around init()
TempoRangeNext ==
    \/ \E o \in InitOutcomes : CallInit(o)
    \/ \E v \in AnyTempos : SetTempo(v)
    \/ LoopNext

\* the delay times over the tempo range, the divisions and the spread
DelayRangeNext ==
    \/ \E o \in InitOutcomes : CallInit(o)
    \/ \E v \in RangeTempos : SetTempo(v)
    \/ \E div \in AllDivisions, spread \in Spreads : UpdateDelay(div, 40, 50, spread)
    \/ LoopNext

\* the vibrato setting and the chord voices
VibratoNext ==
    \/ \E o \in InitOutcomes : PlayChord(<< 0, 7 >>, o)
    \/ StopChord(FALSE)
    \/ \E amt \in VibratoAmounts, rate \in VibratoRates : SetVibrato(amt, rate)
    \/ \E v \in BOOLEAN : SetBassEnabled(v)
    \/ LoopNext

\* setters on the same parameters at the same and at later audio times
ScheduleNext ==
    \/ \E o \in InitOutcomes : CallInit(o)
    \/ \E v \in Levels : SetChordVolume(v)
    \/ \E v \in Levels : SetRhythmCutoff(v)
    \/ \E d \in Divisions, fb \in Levels : UpdateDelay(d, fb, 50, 30)
    \/ AudioClock
    \/ LoopNext

\* init() and the rhythm sequencer
RhythmNext ==
    \/ \E o \in InitOutcomes : CallInit(o)
    \/ \E p \in Patterns \cup {"None"}, o \in InitOutcomes : StartRhythm(p, o)
    \/ StopRhythm
    \/ \E t \in timers : RhythmTick(t)
    \/ LoopNext

\* the rhythm sequencer under tempo changes: syncEngine's setTempo and the
\* App's tempo handler
TempoNext ==
    \/ \E o \in InitOutcomes : CallInit(o)
    \/ \E p \in Patterns \cup {"None"}, o \in InitOutcomes : StartRhythm(p, o)
    \/ StopRhythm
    \/ \E t \in timers : RhythmTick(t)
    \/ \E v \in Tempos : SetTempo(v)
    \/ \E v \in Tempos, o \in InitOutcomes : HandleTempoChange(v, "1/8", 40, 50, 30, o)
    \/ LoopNext

\* init() and the chord / bass voices
VoiceNext ==
    \/ \E o \in InitOutcomes : CallInit(o)
    \/ \E c \in Chords, o \in InitOutcomes : PlayChord(c, o)
    \/ \E c \in Chords, o \in InitOutcomes : PlayChordThenStop(c, o)
    \/ \E i \in BOOLEAN : StopChord(i)
    \/ \E v \in BOOLEAN : SetBassEnabled(v)
    \/ LoopNext

Init == EngineInit /\ MidiInit /\ InstInit /\ ParamInit /\ AccessInit /\ GuardInit /\ CalcInit

SpecRhythm == Init /\ [][RhythmNext]_vars
SpecVoices == Init /\ [][VoiceNext]_vars
SpecLockout == Init /\ [][LockoutNext]_vars
SpecChordOut == Init /\ [][ChordOutNext]_vars
SpecListeners == Init /\ [][ListenerNext]_vars
SpecStorm == Init /\ [][StormNext]_vars
SpecBytes == Init /\ [][BytesNext]_vars
SpecNoOutput == Init /\ [][NoOutputNext]_vars
SpecTracking == Init /\ [][TrackingNext]_vars
SpecCycle == Init /\ [][CycleNext]_vars
SpecPitch == Init /\ [][PitchNext]_vars
SpecStrum == Init /\ [][StrumNext]_vars
SpecSources == Init /\ [][SourcesNext]_vars
SpecAccess == Init /\ [][AccessNext]_vars
\* timers whose delay has elapsed fire, and the clock reaches every due time
SpecHarp ==
    /\ Init /\ [][HarpNext]_vars
    /\ WF_vars(\E t \in harpTimers : FireHarpTimer(t))
    /\ WF_vars(\E t \in { h.due : h \in harpTimers } : Advance(t))
SpecInst == Init /\ [][InstNext]_vars
SpecSetters == Init /\ [][SetterNext]_vars
SpecTempo == Init /\ [][TempoNext]_vars
SpecDelay == Init /\ [][DelayNext]_vars
SpecDelayRange == Init /\ [][DelayRangeNext]_vars
SpecSchedule == Init /\ [][ScheduleNext]_vars
SpecVibrato == Init /\ [][VibratoNext]_vars
SpecTempoRange == Init /\ [][TempoRangeNext]_vars


(***************************************************************************)
(* Claims about the rhythm sequencer (SpecRhythm).                         *)
(***************************************************************************)
\* C1: after any sequence of startRhythm / stopRhythm calls at most one
\* interval timer is live, and a live timer is the one stored in rhythmInterval.
C1_SingleLiveTimer ==
    /\ Cardinality(timers) <= 1
    /\ \A t \in timers : t.id = rhythmInterval

\* C2: once the latest rhythm request is a stop (stopRhythm() or
\* startRhythm(None)), no tick of the rhythm timer triggers a drum hit.
C2_NoHitAfterStop ==
    [][ \A t \in timers :
          (lastPattern = "None" /\ RhythmTick(t)) => lastTick'.drums = {} ]_vars

(***************************************************************************)
(* Claims about the voices (SpecVoices).                                   *)
(***************************************************************************)
\* C3: once a playChord(chord) followed in the same turn by stopChord(true)
\* has run to completion, no voice created by that playChord is still tracked
\* in chordOscillators or bassOscillators.
C3_NoVoiceAfterPlayStop ==
    Quiescent =>
        \A v \in chordOscillators \cup bassOscillators : v.call \notin playStopCalls

(***************************************************************************)
(* Claims about the lockout window (SpecLockout).                          *)
(***************************************************************************)
\* C4: when the latest send that resolved an output happened at time t, an
\* incoming message handled strictly before t + 35 ms reaches no listener, and
\* one handled at t + 35 ms or later reaches every registered listener exactly
\* once (and nobody else).
C4_LockoutBoundary ==
    (lastIn.handled /\ lastIn.afterSend) =>
        IF lastIn.sinceSend < LOCKOUT_DURATION_MS
        THEN \A l \in Listeners : lastIn.got[l] = 0
        ELSE \A l \in Listeners : lastIn.got[l] = (IF l \in lastIn.to THEN 1 ELSE 0)

\* an incoming message handled exactly 35 ms after a send was delivered to
\* both registered listeners
C4_Witness ==
    /\ lastIn.handled
    /\ lastIn.afterSend
    /\ lastIn.sinceSend = LOCKOUT_DURATION_MS
    /\ lastIn.to = Listeners
    /\ \A l \in Listeners : lastIn.got[l] = 1

\* C15: an incoming message that is not suppressed is delivered exactly once to
\* every callback that is registered when it is handled, however often that
\* callback was registered, and is not delivered to a callback that was removed
\* or never registered.
C15_DeliveredOncePerListener ==
    (lastIn.handled /\ ~lastIn.suppressed) =>
        \A l \in Listeners : lastIn.got[l] = (IF lastIn.regs[l] > 0 THEN 1 ELSE 0)

\* an unsuppressed message reached a callback registered twice exactly once
\* and did not reach the other callback, which is not registered
C15_Witness ==
    /\ lastIn.handled
    /\ ~lastIn.suppressed
    /\ \E l, k \in Listeners :
          /\ lastIn.regs[l] = 2
          /\ lastIn.got[l] = 1
          /\ lastIn.regs[k] = 0
          /\ lastIn.got[k] = 0

\* C16: every harp note-on an output accepted is followed, 250 ms later or more,
\* by exactly one note-off of the same note and channel sent to the same output,
\* whatever is sent afterwards: at every moment each accepted note-on has either
\* had its one note-off sent or has its timer pending with a delay of 250 ms, a
\* timer ends only by sending that note-off once its delay has elapsed, and every
\* pending timer ends.
C16_HarpKeys == BagToSet(harpOn) \cup BagToSet(harpOff) \cup { HarpKey(t) : t \in harpTimers }
C16_Accounted ==
    /\ \A k \in C16_HarpKeys :
          CopiesIn(k, harpOn) =
              CopiesIn(k, harpOff) + Cardinality({ t \in harpTimers : HarpKey(t) = k })
    /\ \A t \in harpTimers : t.due = t.at + 250 /\ Command(t.status) = NOTE_OFF
C16_EndsBySending ==
    \A t \in harpTimers \ harpTimers' :
        /\ now >= t.at + 250
        /\ harpOff' = harpOff (+) SetToBag({ HarpKey(t) })
C17_NoSendExceptionEscapes == uncaught = "none"

\* C18: an access request asks with sysex first and without sysex only after
\* that was refused; a call never rejects; a call that found no MIDI API or had
\* both requests refused ends marking MIDI as unavailable with the device table
\* of its manager empty.
C18_Unavailable(c) ==
    IF c.m = "MidiManager" THEN c.result = "notPhysical" ELSE ~c.flag
C18_AccessRequestContract ==
    \A c \in calls :
        /\ c.asked \in { << >>, << TRUE >>, << TRUE, FALSE >> }
        /\ c.asked = << TRUE, FALSE >> => c.refused >= 1
        /\ c.result # "rejected"
        /\ (c.pc = "done" /\ (c.refused = 2 \/ c.api = "no")) =>
               (C18_Unavailable(c) /\ c.outs = {})

\* C19: a refresh made while the main app's bridge is READY issues a new
\* platform access request.
C19_RefreshRequestsAgain ==
    \A r \in refreshes : r.from = "READY" => r.requested

\* C20: in every window of 100 ms at most 13 messages pass the storm guard (the
\* first and the 12 counted after it), and a message that arrives when 13 have
\* passed in the 100 ms up to it is dropped.
C20_StormGuardBoundsRate ==
    /\ Len(passTimes) <= STORM_THRESHOLD + 1
    /\ lastVerdict.before >= STORM_THRESHOLD + 1 => ~lastVerdict.passed

\* a fourteenth message arrived within 100 ms of thirteen that passed, and was dropped
C20_Witness ==
    /\ ~lastVerdict.passed
    /\ lastVerdict.before = 13
    /\ Len(passTimes) = 13

\* C21: a device that never sends more than 12 messages in any 100 ms never has
\* a message dropped by the storm guard, whatever the other devices send.
C21_CompliantSourceNeverDropped ==
    lastVerdict.id = "in1" => lastVerdict.passed

\* C22: sendChord of the chord [0,4,7] on channel 1 to one output that tracks no
\* notes hands it exactly three messages, note-ons with status 0x90 for the notes
\* 60, 64 and 67, and the sendChord(null) that follows on that output and channel
\* hands it exactly the three note-offs (status 0x80) for 60, 64 and 67.
C22_StatusAndNote(msgs) == [ i \in 1..Len(msgs) |-> << msgs[i][1], msgs[i][2] >> ]
C22_ChordRoundTrip ==
    [][ /\ ( /\ ApiSendChord(<<0, 4, 7>>, "all", 1)
             /\ outputs = {"o1"}
             /\ activeChordNotes["o1"] = << >> )
           => C22_StatusAndNote(wire'["o1"]) = << <<144, 60>>, <<144, 64>>, <<144, 67>> >>
        /\ ( /\ ApiSendChord(NoChord, "all", 1)
             /\ outputs = {"o1"}
             /\ Len(wire["o1"]) = 3
             /\ \A i \in 1..3 : wire["o1"][i][1] = 144 )
           => C22_StatusAndNote(wire'["o1"]) = << <<128, 60>>, <<128, 64>>, <<128, 67>> >>
      ]_vars

\* C23: every message sendChord and sendHarpNote build, for every chord of the
\* chord tables, every string 0..13, every harp octave setting and every
\* channel, has three bytes: a note-on or note-off status carrying channel - 1
\* and two data bytes in 0..127.
C23_ValidMessage(m) ==
    /\ Len(m) = 3
    /\ \E cmd \in { NOTE_ON, NOTE_OFF }, ch \in 1..16 : m[1] = cmd + (ch - 1)
    /\ m[2] \in 0..127
    /\ m[3] \in 0..127
C23_ValidMidiBytes ==
    calcIn.fn \in { "sendChord", "sendHarpNote" } =>
        \A i \in 1..Len(calcOut) : C23_ValidMessage(calcOut[i])

\* C24: for every feedback value passed to updateDelay, values at or above 1
\* included, the gain targeted on the delay feedback node is strictly below 1
\* (1000 in 1/1000)
C24_FeedbackGainBelowUnity ==
    params["delayFeedback.gain"].n > 0 => params["delayFeedback.gain"].target < 1000

\* C25: for every feedback setting in 0..1 the gain around the delay loop, the
\* applied feedback gain times the number of delay-line outputs summed into the
\* feedback node and fed back into both lines, stays below 1
C25_LoopGainBelowUnity ==
    [][(/\ UpdateDelay(lastDelay'.div, lastDelay'.fb, 50, 30)
        /\ lastDelay'.fb \in 0..100
        /\ graphBuilt) => LoopGain(params') < 1000]_vars

\* C26: for every division and tempo updateDelay targets a left delay time of
\* (60 / tempo) * divisionMultiplier(division), in microseconds here; the time
\* at tempo 60 is twice the time at tempo 120, and tempo 120 with "1/8" gives
\* 0.25 s
C26_DelayTimeFollowsTempo ==
    [][(/\ UpdateDelay(lastDelay'.div, lastDelay'.fb, 50, 30)
        /\ graphBuilt
        /\ ctx # "null") =>
          LET time == params'["delayNodeL.delayTime"].target
              d == lastDelay'.div IN
          /\ time * tempo = 60000 * DivisionMultiplier(d)
          /\ tempo = 60 => time = 2 * DelayTime(120, d)
          /\ (tempo = 120 /\ d = "1/8") => time = 250000]_vars

C26_Witness ==
    /\ lastSetter = [ name |-> "delay", built |-> TRUE ]
    /\ tempo = 60
    /\ params["delayNodeL.delayTime"].target = 2 * 250000

\* C27: for a chord with N intervals and an index k >= 0 the harp note for
\* index k + N has the pitch class of the note for index k and lies exactly 12
\* semitones above it, in the synthesized pitch and in the MIDI note number
C27_NextRoundIsOctaveUp ==
    calcIn.fn = "playHarpNote" =>
        /\ calcOut.upper.synth = calcOut.lower.synth + 12
        /\ calcOut.upper.synth % 12 = calcOut.lower.synth % 12
        /\ calcOut.upper.midi = calcOut.lower.midi + 12
        /\ calcOut.upper.midi % 12 = calcOut.lower.midi % 12

C27_Witness ==
    /\ calcIn.fn = "playHarpNote"
    /\ calcIn.index >= Len(calcIn.chord)
    /\ calcIn.harpOctave = -2
    /\ calcOut.upper.midi = calcOut.lower.midi + 12

\* C28: whatever value setTempo is given (zero, negative, beyond the playable
\* range), the tempo the engine then uses for the beat duration, the delay
\* time and the rhythm timer lies within the fixed positive playable range
C28_TempoWithinRange == tempo \in TEMPO_MIN..TEMPO_MAX

\* C29: in every state after init() has completed, before the first setSends
\* call included, the dry gain of each source (chord, harp, rhythm) is
\* max(0, 1 - delaySend - reverbSend) of the source's current send gains
C29_DryGainDerived ==
    (graphBuilt /\ Quiescent) => \A source \in MixSources : DryDerived(params, source)

\* C30: setVibrato(amount, rate) reaches the voices already sounding: after
\* the call every active chord voice has an attached LFO whose rate target is
\* `rate` and whose depth target is proportional to `amount` (zero for amount 0)
C30_VibratoReachesSoundingVoices ==
    [][SetVibrato(vibratoAmount', vibratoRate') =>
          \A v \in chordOscillators' :
             /\ v.lfo.on
             /\ v.lfo.rate = vibratoRate'
             /\ v.lfo.depth = vibratoAmount' * 25]_vars

\* C31: after any sequence of setter calls on a parameter driven through
\* safeTarget the parameter has a single pending smoothed schedule, whose
\* target is the value of the most recent call; every earlier pending schedule
\* has been cancelled
C31_SinglePendingSchedule ==
    \A p \in ParamNames :
       params[p].n > 0 =>
          /\ Cardinality(Governing(params[p].events, currentTime)) = 1
          /\ \A e \in Governing(params[p].events, currentTime) :
                e.target = params[p].target

C31_Witness ==
    /\ params["chordSource.gain"].n = 2
    /\ Cardinality(params["chordSource.gain"].events) = 2
    /\ \E e \in params["chordSource.gain"].events :
          e.target # params["chordSource.gain"].target

\* C32: every oscillator started for a chord, bass or vibrato voice is at every
\* moment tracked in chordOscillators or bassOscillators or has a stop
\* scheduled: a step that takes one off the lists schedules its stop, and a
\* scheduled stop stays
C32_NoOscillatorLeftRunning ==
    [][Oscillators(chordOscillators \cup bassOscillators) \cup Oscillators(stopScheduled)
          \subseteq Oscillators(chordOscillators' \cup bassOscillators')
                       \cup Oscillators(stopScheduled')]_vars

C32_Witness ==
    /\ \E v \in stopScheduled : v.kind = "chord" /\ v.lfo.on
    /\ \E v \in stopScheduled : v.kind = "bass"
    /\ \E v \in chordOscillators : v.lfo.on /\ v.lfo.rate # vibratoRate

\* C33: MidiInstrument hands an incoming message to its callbacks if and only
\* if the configured input device is "all" or the message's device, and the
\* configured input channel is 0 or the message's channel (low status nibble
\* + 1); with an output configured the message is forwarded with its command
\* nibble and data bytes unchanged and outputChannel as its channel
C33_Filtered(m, d) ==
    /\ config.inputId = "all" \/ config.inputId = d
    /\ config.inputChannel = 0 \/ config.inputChannel = (m[1] % 16) + 1

C33_FilterAndThru ==
    [][(callStack # << >> /\ Top.pc = "enter" /\ callStack' # callStack) =>
          LET m == Top.message
              d == Top.deviceId IN
          /\ lastEvent'.callbacks <=> C33_Filtered(m, d)
          /\ (C33_Filtered(m, d) /\ config.outputId # "none") =>
                lastEvent'.thru = << (m[1] \div 16) * 16 + (config.outputChannel - 1),
                                     m[2], m[3] >>]_vars

\* C34: for Waltz and Jazz Waltz, whose rules are written against a 12-step
\* cycle, the kick fires with a constant period of 12 ticks, once per 12-step
\* cycle, over the whole 48-step counter cycle
C34_WaltzKickEveryTwelve ==
    (calcIn.fn = "setInterval" /\ calcIn.pattern \in { "Waltz", "Jazz Waltz" }) =>
        calcIn.kicks = { t \in 0..(calcIn.tick - 1) : t % 12 = 0 }

\* C35: a sendChord or sendHarpNote call that resolves to no output device
\* (outputId "none", an id not in the device table, "all" with no outputs)
\* transmits nothing, leaves lockoutUntil unchanged and leaves the chord-note
\* tracking table unchanged
C35_ResolvesToNone(o) ==
    \/ o = "none"
    \/ o = "all" /\ outputs = {}
    \/ o \in Devices /\ o \notin outputs

C35_NoOutputNoEffect ==
    [][sends' # sends =>
          \A o \in OutputSelectors :
             (/\ C35_ResolvesToNone(o)
              /\ \/ \E c \in { NoChord, <<0, 4, 7>> } : ApiSendChord(c, o, 1)
                 \/ ApiSendHarpNote(<<0, 4, 7>>, 3, o, 2)) =>
                UNCHANGED << lockoutUntil, activeChordNotes, lastTransmitAt, wire, held,
                             harpTimers, harpOn, harpOff >>]_vars

C35_Witness ==
    /\ sends = 2
    /\ lastSendAt = -1
    /\ outputs # {}
    /\ now > 0

\* C36: for every output device the tracked active-note list equals, in every
\* reachable state, the set of chord notes that have been sent note-on and not
\* yet note-off on that device, also after a sendChord in which send() throws
\* part-way through the note-off or note-on sequence
C36_TrackedIsSounding ==
    \A d \in Devices : Tracked(d, 1) = held[d]

\* C37: audioOpened is true only if a ramp of the master gain to 1 has been
\* scheduled on the constructed master gain node: audioOpened is never true
\* while the master gain is missing or still at its initial value 0
C37_OpenedOnlyWithRamp ==
    audioOpened => graphBuilt /\ masterTarget = 1

\* C38: for every tempo in 40..240, every delay division and every spread in
\* 0..1, the delay times that updateDelay targets for the left and the right
\* delay line do not exceed the 4.0 s maximum the lines were created with
C38_DelayTimeWithinMaximum ==
    tempo \in TEMPO_MIN..TEMPO_MAX =>
        /\ params["delayNodeL.delayTime"].target <= MAX_DELAY_TIME
        /\ params["delayNodeR.delayTime"].target <= MAX_DELAY_TIME

\* C39: for every chord of the chord tables and fixed octave settings the harp
\* note is strictly increasing in the string index over 0..13: a higher string
\* never sounds at or below the pitch of a lower string
C39_StringsAscend ==
    calcIn.fn = "strum" =>
        /\ calcOut.upper.synth > calcOut.lower.synth
        /\ calcOut.upper.midi > calcOut.lower.midi

\* C5: whenever a message has been handed to an output, lockoutUntil is at
\* least the time of that transmission plus the lockout duration.
C5_EveryTransmissionArmsLockout ==
    lastTransmitAt >= 0 => lockoutUntil >= lastTransmitAt + LOCKOUT_DURATION_MS

(***************************************************************************)
(* Claims about the instrument filter layer (SpecInst).                    *)
(***************************************************************************)
\* C6: handling one incoming message terminates: handleMidiEvent is never
\* re-entered with a message and device id that a frame still on the call
\* stack is already handling (the config is fixed while the stack is non-empty,
\* so such a re-entry repeats forever).
C6_HandlingTerminates ==
    \A i, j \in 1..Len(callStack) :
        i < j => \/ callStack[i].message # callStack[j].message
                 \/ callStack[i].deviceId # callStack[j].deviceId

(***************************************************************************)
(* Claims about chord-out tracking (SpecChordOut).                         *)
(***************************************************************************)
\* C7: what a sendChord hands to a device starts with note-offs for exactly
\* the <<channel, note>> pairs the previous sendChord turned on there, and
\* every note-off precedes every note-on.
C7_NoteOffsMatchPrevious ==
    \A d \in Devices :
        /\ NoteOffs(wire[d]) = prevOn[d]
        /\ \A i, j \in 1..Len(wire[d]) :
              (Command(wire[d][i][1]) = NOTE_OFF /\ Command(wire[d][j][1]) = NOTE_ON) => i < j

\* C8: after handleKillChord no device holds a chord note that was turned on
\* and never turned off.
C8_KillReleasesEverything ==
    [][ HandleKillChord => \A d \in Devices : held'[d] = {} ]_vars

\* C14: once every playChord call has run to completion, the tracked chord and
\* bass voices all belong to the most recently issued playChord call (voices of
\* earlier calls have been released and given a stop).
C14_LatestChordSounds ==
    Quiescent =>
        \A v \in chordOscillators \cup bassOscillators : v.call = nextCall - 1

(***************************************************************************)
(* Claims about init() (SpecRhythm).                                       *)
(***************************************************************************)
\* C9 as stated: exactly one context and one graph are constructed, and every
\* caller's promise settles only after that construction has finished.
C9_SettlesAfterConstruction ==
    \A c \in callerSaw : c.graphBuilt /\ c.graphCount = 1

\* C9 amended: at most one context and at most one graph are ever constructed;
\* a caller's promise is fulfilled only after that single construction has
\* finished, and is rejected only when no graph was constructed.
C9_SingleConstruction ==
    /\ ctxCount <= 1
    /\ graphCount <= 1
    /\ \A c \in callerSaw :
          /\ c.outcome = "fulfilled" => (c.graphBuilt /\ c.graphCount = 1)
          /\ c.outcome = "rejected" => (~c.graphBuilt /\ c.graphCount = 0)

\* two init() callers are suspended on the same in-flight initialization,
\* which has constructed one context
C9_Witness ==
    /\ initPromise = "pending"
    /\ Cardinality({ i \in 1..Len(waitInit) : waitInit[i].kind = "initCaller" }) = 2
    /\ ctxCount = 1

\* C10: an init() call made after a failed attempt enters the init body again.
C10_RetryAfterFailure ==
    [][ \A o \in InitOutcomes :
          (initPromise = "rejected" /\ CallInit(o)) => attempts' = attempts + 1 ]_vars

\* C12: a rhythm timer exists only once initialization has completed: no timer
\* is live, and so no tick occurs, while the graph node fields are unassigned.
C12_TimerOnlyAfterInit ==
    \A t \in timers : graphBuilt

\* C13: every live rhythm timer ticks with the period (60 / tempo) / 4 of the
\* engine's current tempo.
C13_PeriodFollowsTempo ==
    \A t \in timers : t.period = TickPeriod(tempo)

(***************************************************************************)
(* Claims about the setters (SpecSetters).                                 *)
(***************************************************************************)
\* C11: while the node fields are not assigned (before init(), while init() is
\* suspended on the context resume, after a failed init()) no setter has
\* scheduled a change on any audio parameter or assigned a curve, and no
\* setter has thrown.
C11_SettersNoOpBeforeInit ==
    ~graphBuilt =>
        /\ \A p \in ParamNames : params[p].n = 0
        /\ tubeCurve = -1
        /\ ~setterThrew

\* setSends was called while init() is suspended on the resume of the context
\* it has already stored, and nothing was scheduled
C11_Witness ==
    /\ lastSetter.name = "sends"
    /\ ~lastSetter.built
    /\ initPromise = "pending"
    /\ ctx = "suspended"
    /\ ~graphBuilt
    /\ \A p \in ParamNames : params[p].n = 0

====
